---- MODULE Spec2Model ----
(***************************************************************************)
(* Model of the MCP tool layer of ai-dev-kit: the pydantic input contracts *)
(* (models/*.py), the tool handlers (tools/*.py) and the pipeline core     *)
(* functions (spark_declarative_pipelines/pipelines.py), together with the *)
(* remote platform the handlers call.                                      *)
(*                                                                         *)
(* Python values are tagged records [t, v]:                                *)
(*   none, bool, int, str (a sequence of tokens, " " is whitespace),       *)
(*   list (a sequence of values), dict (a function from keys to values),   *)
(*   enum (a member of a str-Enum class, v is its value).                  *)
(***************************************************************************)
EXTENDS Integers, Sequences, FiniteSets, TLC

VARIABLES
    tool,       \* name of the tool handler invoked last ("" before any call)
    arguments,  \* the arguments value it was invoked with
    outcome,    \* "init", "returned" or "raised" (exception escaped the handler)
    envelope,   \* the dict the handler returned (NoEnvelope when it raised)
    calls,      \* collaborator calls made by the last invocation, in order
    updates,    \* remote platform: update_id -> update record
    stopping,   \* remote platform: a stop request is pending
    polls       \* per update, what the status handler reported last: the
                \* state in its text, the remote state at that call, and
                \* whether the poll before reported another state

vars == <<tool, arguments, outcome, envelope, calls, updates, stopping, polls>>

\* bounds of the model
MaxUpdates == 1      \* updates the remote platform is asked to start

----------------------------------------------------------------------------
(* Python values *)

PyNone == [t |-> "none", v |-> "none"]
PyBool(b) == [t |-> "bool", v |-> b]
PyInt(i) == [t |-> "int", v |-> i]
PyStr(s) == [t |-> "str", v |-> s]
PyList(l) == [t |-> "list", v |-> l]
PyDict(m) == [t |-> "dict", v |-> m]
PyEnum(s) == [t |-> "enum", v |-> s]

\* the empty function, i.e. the empty mapping {}
EmptyMap == [k \in {} |-> PyNone]

\* Python truthiness: None, False, 0, "", [] and {} are falsy
Truthy(x) ==
    CASE x.t = "none" -> FALSE
      [] x.t = "bool" -> x.v
      [] x.t = "int"  -> x.v # 0
      [] x.t = "str"  -> Len(x.v) > 0
      [] x.t = "list" -> Len(x.v) > 0
      [] x.t = "dict" -> DOMAIN x.v # {}
      [] OTHER -> TRUE

\* str.strip() on a token sequence
RECURSIVE LStrip(_)
LStrip(s) == IF s # <<>> /\ Head(s) = " " THEN LStrip(Tail(s)) ELSE s

RECURSIVE RStrip(_)
RStrip(s) ==
    IF s # <<>> /\ s[Len(s)] = " " THEN RStrip(SubSeq(s, 1, Len(s) - 1)) ELSE s

\* Strip that removes one leading blank at most
StripOnce(s) == IF s # <<>> /\ Head(s) = " " THEN Tail(s) ELSE s

Strip(s) == RStrip(LStrip(s))

\* f"{a}.{b}" for two str values
Dotted(a, b) == PyStr(a.v \o <<".">> \o b.v)

----------------------------------------------------------------------------
(* pydantic field validation (lax mode) under MCPInputModel.model_config   *)

\* a field specification of an input model
Field(name, ty, nullable, required, default) ==
    [name |-> name, ty |-> ty, nullable |-> nullable, required |-> required,
     default |-> default, ge |-> 0, le |-> 0, bounded |-> FALSE,
     min_length |-> 0, enum |-> {}]

Err(loc, type, msg) == [loc |-> loc, msg |-> msg, type |-> type]

Digits == [d \in {"0", "1", "2", "3", "4", "5", "6", "7", "8", "9"} |->
             CASE d = "0" -> 0 [] d = "1" -> 1 [] d = "2" -> 2 [] d = "3" -> 3
               [] d = "4" -> 4 [] d = "5" -> 5 [] d = "6" -> 6 [] d = "7" -> 7
               [] d = "8" -> 8 [] OTHER -> 9]

IsNumeral(s) == s # <<>> /\ \A i \in 1..Len(s) : s[i] \in DOMAIN Digits

RECURSIVE ParseInt(_)
ParseInt(s) ==
    IF s = <<>> THEN 0
    ELSE 10 * ParseInt(SubSeq(s, 1, Len(s) - 1)) + Digits[s[Len(s)]]

\* CheckRange with gt / lt in place of ge / le: the two bounds are rejected
CheckRangeExclusive(f, i) ==
    IF f.bounded /\ i <= f.ge
    THEN [v |-> PyNone, errs |-> <<Err(<<f.name>>, "greater_than_equal", "ge")>>]
    ELSE IF f.bounded /\ i >= f.le
    THEN [v |-> PyNone, errs |-> <<Err(<<f.name>>, "less_than_equal", "le")>>]
    ELSE [v |-> PyInt(i), errs |-> <<>>]

\* the range constraints ge / le of an int field
CheckRange(f, i) ==
    IF f.bounded /\ i < f.ge
    THEN [v |-> PyNone, errs |-> <<Err(<<f.name>>, "greater_than_equal", "ge")>>]
    ELSE IF f.bounded /\ i > f.le
    THEN [v |-> PyNone, errs |-> <<Err(<<f.name>>, "less_than_equal", "le")>>]
    ELSE [v |-> PyInt(i), errs |-> <<>>]

\* str(i) for the list indexes that occur in error locations
IndexName(i) == CASE i = 0 -> "0" [] i = 1 -> "1" [] i = 2 -> "2" [] OTHER -> "n"

\* items of a List[str] field: each must be a str and is stripped
RECURSIVE StrItems(_, _, _)
StrItems(name, l, i) ==
    LET cons(rest) ==
            IF l[i].t = "str"
            THEN [v |-> <<PyStr(Strip(l[i].v))>> \o rest.v, errs |-> rest.errs]
            ELSE [v |-> rest.v,
                  errs |-> <<Err(<<name, IndexName(i - 1)>>, "string_type", "str")>>
                           \o rest.errs]
    IN IF i > Len(l) THEN [v |-> <<>>, errs |-> <<>>]
       ELSE cons(StrItems(name, l, i + 1))

\* one item of List[ColumnModel]: a mapping with str name, str type_name and
\* an optional str comment; unknown keys are ignored
ColumnItem(name, x, i) ==
    LET loc(k) == <<name, IndexName(i - 1), k>>
        req(k) == IF k \notin DOMAIN x.v THEN <<Err(loc(k), "missing", "Field required")>>
                  ELSE IF x.v[k].t # "str" THEN <<Err(loc(k), "string_type", "str")>>
                  ELSE <<>>
        opt(k) == IF k \notin DOMAIN x.v \/ x.v[k].t \in {"str", "none"} THEN <<>>
                  ELSE <<Err(loc(k), "string_type", "str")>>
        val(k) == IF k \in DOMAIN x.v /\ x.v[k].t = "str"
                  THEN PyStr(Strip(x.v[k].v)) ELSE PyNone
        item(errs) ==
            [v |-> IF errs = <<>>
                   THEN <<PyDict([k \in {"name", "type_name", "comment"} |-> val(k)])>>
                   ELSE <<>>,
             errs |-> errs]
    IN item(IF x.t # "dict"
            THEN <<Err(<<name, IndexName(i - 1)>>, "model_type", "dict")>>
            ELSE req("name") \o req("type_name") \o opt("comment"))

RECURSIVE ColumnItems(_, _, _)
ColumnItems(name, l, i) ==
    LET cons(item, rest) == [v |-> item.v \o rest.v, errs |-> item.errs \o rest.errs]
    IN IF i > Len(l) THEN [v |-> <<>>, errs |-> <<>>]
       ELSE cons(ColumnItem(name, l[i], i), ColumnItems(name, l, i + 1))

\* strings pydantic accepts for a bool field
BoolTrue == {<<"true">>, <<"1">>, <<"yes">>}
BoolFalse == {<<"false">>, <<"0">>, <<"no">>}

\* validation of one supplied value x against field f:
\* the coerced value and the errors it raises
CoerceField(f, x) ==
    LET bad(type) == [v |-> PyNone, errs |-> <<Err(<<f.name>>, type, type)>>]
        good(v) == [v |-> v, errs |-> <<>>]
        items(r) == [v |-> PyList(r.v), errs |-> r.errs]
    IN CASE x.t = "none" ->
              IF f.nullable THEN good(PyNone)
              ELSE bad(CASE f.ty = "str" -> "string_type"
                         [] f.ty = "bool" -> "bool_type"
                         [] f.ty = "int" -> "int_type"
                         [] f.ty = "enum" -> "enum"
                         [] OTHER -> "list_type")
         [] f.ty = "str" ->
              IF x.t \in {"str", "enum"} THEN good(PyStr(Strip(x.v)))
              ELSE bad("string_type")
         [] f.ty = "bool" ->
              CASE x.t = "bool" -> good(x)
                [] x.t = "int" -> IF x.v \in {0, 1} THEN good(PyBool(x.v = 1))
                                  ELSE bad("bool_parsing")
                [] x.t = "str" -> IF x.v \in BoolTrue THEN good(PyBool(TRUE))
                                  ELSE IF x.v \in BoolFalse THEN good(PyBool(FALSE))
                                  ELSE bad("bool_parsing")
                [] OTHER -> bad("bool_type")
         [] f.ty = "int" ->
              CASE x.t = "int" -> CheckRange(f, x.v)
                [] x.t = "bool" -> CheckRange(f, IF x.v THEN 1 ELSE 0)
                [] x.t = "str" -> IF IsNumeral(Strip(x.v))
                                  THEN CheckRange(f, ParseInt(Strip(x.v)))
                                  ELSE bad("int_parsing")
                [] OTHER -> bad("int_type")
         [] f.ty = "enum" ->
              IF x.t \in {"str", "enum"} /\ x.v \in f.enum
              THEN good(PyStr(x.v))      \* use_enum_values
              ELSE bad("enum")
         [] f.ty = "liststr" ->
              IF x.t # "list" THEN bad("list_type")
              ELSE IF Len(x.v) < f.min_length THEN bad("too_short")
              ELSE items(StrItems(f.name, x.v, 1))
         [] OTHER ->   \* "listcol"
              IF x.t # "list" THEN bad("list_type")
              ELSE IF Len(x.v) < f.min_length THEN bad("too_short")
              ELSE items(ColumnItems(f.name, x.v, 1))

\* one field of the model against the keyword arguments m
ValidateField(f, m) ==
    IF f.name \in DOMAIN m THEN CoerceField(f, m[f.name])
    ELSE IF f.required
         THEN [v |-> PyNone, errs |-> <<Err(<<f.name>>, "missing", "Field required")>>]
         ELSE [v |-> f.default, errs |-> <<>>]    \* defaults are not validated

RECURSIVE FieldErrors(_, _, _)
FieldErrors(fields, m, i) ==
    IF i > Len(fields) THEN <<>>
    ELSE ValidateField(fields[i], m).errs \o FieldErrors(fields, m, i + 1)

FieldNames(fields) == {fields[i].name : i \in 1..Len(fields)}

FieldNamed(fields, n) == fields[CHOOSE i \in 1..Len(fields) : fields[i].name = n]

\* AfterValidator without the storage_location rule of EXTERNAL tables
AfterValidatorNoStorage(validator, cmd) ==
    CASE validator = "validate_at_least_one_update" ->
           IF ~(Truthy(cmd["new_name"]) \/ Truthy(cmd["comment"]))
           THEN <<Err(<<>>, "value_error",
                      "At least one of 'new_name' or 'comment' must be provided")>>
           ELSE <<>>
      [] OTHER -> <<>>

\* @model_validator(mode='after') of the input models; runs on the built model
AfterValidator(validator, cmd) ==
    CASE validator = "validate_at_least_one_update" ->
           IF ~(Truthy(cmd["new_name"]) \/ Truthy(cmd["comment"]))
           THEN <<Err(<<>>, "value_error",
                      "At least one of 'new_name' or 'comment' must be provided")>>
           ELSE <<>>
      [] validator = "validate_external_storage" ->
           IF cmd["table_type"].v = <<"EXTERNAL">> /\ ~Truthy(cmd["storage_location"])
           THEN <<Err(<<>>, "value_error",
                      "storage_location is required for EXTERNAL tables")>>
           ELSE <<>>
      [] OTHER -> <<>>

\* model.model_dump(): the mapping of the field names to the values the
\* validated model holds
model_dump(cmd) == PyDict(cmd)

\* Validate under extra="forbid": every key of m that is not a field is an error
ValidateForbidExtra(model, m) ==
    LET extra == DOMAIN m \ FieldNames(model.fields)
        result(cmd, ferrs) ==
            LET answer(errs) == [ok |-> errs = <<>>, cmd |-> cmd, errors |-> errs]
            IN answer(IF extra # {}
                      THEN ferrs \o <<Err(<<CHOOSE k \in extra : TRUE>>,
                                          "extra_forbidden", "extra")>>
                      ELSE IF ferrs # <<>> THEN ferrs
                      ELSE AfterValidator(model.validator, cmd))
    IN result([n \in FieldNames(model.fields) |->
                  ValidateField(FieldNamed(model.fields, n), m).v],
              FieldErrors(model.fields, m, 1))

\* Model(**m): the validated command, or the errors of the ValidationError.
\* Keys of m that are not fields are ignored (extra="ignore"); the after
\* validator runs only when every field validated.
Validate(model, m) ==
    LET result(cmd, ferrs) ==
            LET answer(errs) == [ok |-> errs = <<>>, cmd |-> cmd, errors |-> errs]
            IN answer(IF ferrs # <<>> THEN ferrs
                      ELSE AfterValidator(model.validator, cmd))
    IN result([n \in FieldNames(model.fields) |->
                  ValidateField(FieldNamed(model.fields, n), m).v],
              FieldErrors(model.fields, m, 1))

----------------------------------------------------------------------------
(* the input models *)

Req(name, ty) == Field(name, ty, FALSE, TRUE, PyNone)
Opt(name, ty) == Field(name, ty, TRUE, FALSE, PyNone)
Def(name, ty, default) == Field(name, ty, FALSE, FALSE, default)
Model(fields, validator) == [fields |-> fields, validator |-> validator]

LanguageEnum == {<<"python">>, <<"sql">>, <<"scala">>, <<"r">>}
TableTypeEnum == {<<"MANAGED">>, <<"EXTERNAL">>}

\* models/pipelines.py
CreatePipelineInput ==
    Model(<<Req("name", "str"), Req("root_path", "str"), Req("catalog", "str"),
            Req("schema", "str"),
            [Req("workspace_notebook_paths", "liststr") EXCEPT !.min_length = 1],
            Def("serverless", "bool", PyBool(TRUE))>>, "none")

GetPipelineInput == Model(<<Req("pipeline_id", "str")>>, "none")

UpdatePipelineInput ==
    Model(<<Req("pipeline_id", "str"), Opt("name", "str"), Opt("root_path", "str"),
            Opt("catalog", "str"), Opt("schema", "str"),
            Opt("workspace_notebook_paths", "liststr"),
            Opt("serverless", "bool")>>, "none")

DeletePipelineInput == Model(<<Req("pipeline_id", "str")>>, "none")

StartPipelineUpdateInput ==
    Model(<<Req("pipeline_id", "str"), Opt("refresh_selection", "liststr"),
            Def("full_refresh", "bool", PyBool(FALSE)),
            Opt("full_refresh_selection", "liststr")>>, "none")

ValidatePipelineInput ==
    Model(<<Req("pipeline_id", "str"), Opt("refresh_selection", "liststr"),
            Def("full_refresh", "bool", PyBool(FALSE)),
            Opt("full_refresh_selection", "liststr")>>, "none")

GetPipelineUpdateStatusInput ==
    Model(<<Req("pipeline_id", "str"), Req("update_id", "str")>>, "none")

StopPipelineInput == Model(<<Req("pipeline_id", "str")>>, "none")

GetPipelineEventsInput ==
    Model(<<Req("pipeline_id", "str"),
            [Def("max_results", "int", PyInt(100))
                EXCEPT !.bounded = TRUE, !.ge = 1, !.le = 1000]>>, "none")

ListPipelineFilesInput == Model(<<Req("path", "str")>>, "none")

GetPipelineFileStatusInput == Model(<<Req("path", "str")>>, "none")

ReadPipelineFileInput == Model(<<Req("path", "str")>>, "none")

WritePipelineFileInput ==
    Model(<<Req("path", "str"), Req("content", "str"),
            Def("language", "str", PyStr(<<"PYTHON">>)),
            Def("overwrite", "bool", PyBool(TRUE))>>, "none")

CreatePipelineDirectoryInput == Model(<<Req("path", "str")>>, "none")

DeletePipelinePathInput ==
    Model(<<Req("path", "str"), Def("recursive", "bool", PyBool(FALSE))>>, "none")

\* models/compute.py
CreateContextInput ==
    Model(<<Req("cluster_id", "str"),
            [Def("language", "enum", PyEnum(<<"python">>))
                EXCEPT !.enum = LanguageEnum]>>, "none")

ExecuteCommandWithContextInput ==
    Model(<<Req("cluster_id", "str"), Req("context_id", "str"),
            Req("code", "str")>>, "none")

DestroyContextInput ==
    Model(<<Req("cluster_id", "str"), Req("context_id", "str")>>, "none")

DatabricksCommandInput ==
    Model(<<Req("cluster_id", "str"),
            [Def("language", "enum", PyEnum(<<"python">>))
                EXCEPT !.enum = LanguageEnum],
            Req("code", "str"),
            [Def("timeout", "int", PyInt(120))
                EXCEPT !.bounded = TRUE, !.ge = 1, !.le = 3600]>>, "none")

\* models/unity_catalog.py
ListCatalogsInput == Model(<<>>, "none")

GetCatalogInput == Model(<<Req("catalog_name", "str")>>, "none")

ListSchemasInput == Model(<<Req("catalog_name", "str")>>, "none")

CreateSchemaInput ==
    Model(<<Req("catalog_name", "str"), Req("schema_name", "str"),
            Opt("comment", "str")>>, "none")

UpdateSchemaInput ==
    Model(<<Req("catalog_name", "str"), Req("schema_name", "str"),
            Opt("new_name", "str"), Opt("comment", "str")>>,
          "validate_at_least_one_update")

DeleteSchemaInput ==
    Model(<<Req("catalog_name", "str"), Req("schema_name", "str"),
            Def("force", "bool", PyBool(FALSE))>>, "none")

ListTablesInput ==
    Model(<<Req("catalog_name", "str"), Req("schema_name", "str")>>, "none")

CreateTableInput ==
    Model(<<Req("catalog_name", "str"), Req("schema_name", "str"),
            Req("table_name", "str"),
            [Req("columns", "listcol") EXCEPT !.min_length = 1],
            [Def("table_type", "enum", PyEnum(<<"MANAGED">>))
                EXCEPT !.enum = TableTypeEnum],
            Opt("comment", "str"), Opt("storage_location", "str")>>,
          "validate_external_storage")

----------------------------------------------------------------------------
(* response envelopes (models/base.py and the handlers' return values) *)

NoEnvelope == [none |-> TRUE]

RECURSIVE JoinLoc(_)
JoinLoc(loc) ==
    IF loc = <<>> THEN <<>>
    ELSE IF Len(loc) = 1 THEN <<loc[1]>>
    ELSE <<loc[1], ".">> \o JoinLoc(Tail(loc))

\* MCPValidationError.to_mcp_response: one bullet per error, isError set
to_mcp_response(errors) ==
    [content |-> <<[type |-> "text",
                    text |-> [title |-> "Validation Error:",
                              error_msgs |-> [i \in 1..Len(errors) |->
                                  [field |-> JoinLoc(errors[i].loc),
                                   msg |-> errors[i].msg,
                                   type |-> errors[i].type]]]]>>,
     isError |-> TRUE]

\* {"content": [{"type": "text", "text": f"<prefix>: {str(e)}"}], "isError": True}
ErrorResponse(prefix, msg) ==
    [content |-> <<[type |-> "text", text |-> [title |-> prefix, error |-> msg]]>>,
     isError |-> TRUE]

\* {"content": [{"type": "text", "text": ...}]}: no isError key
TextResponse(text) == [content |-> <<[type |-> "text", text |-> text]>>]

\* f"Language: {input.language}": the text an f-string makes of the value a
\* language field holds. A str is itself; a member of the str-based
\* LanguageEnum formats as its value where the runtime formats a mixed-in enum
\* by its data type (Python up to 3.10) and as LanguageEnum.<NAME> where it
\* formats it as str() does (Python 3.11 and later).
FormatLanguage(x, runtime) ==
    IF x.t # "enum" \/ runtime = "format_value" THEN <<x.v>>
    ELSE <<"LanguageEnum.", CASE x.v = <<"python">> -> "PYTHON"
                              [] x.v = <<"sql">> -> "SQL"
                              [] x.v = <<"scala">> -> "SCALA"
                              [] OTHER -> "R">>

\* results of a collaborator call: a returned value or a raised exception
Ok(value) == [raise |-> FALSE, value |-> value]
Raise(msg) == [raise |-> TRUE, msg |-> msg]

\* a collaborator call as the handler issued it, with the result it got
Call(op, kwargs, r) == [op |-> op, kwargs |-> kwargs, result |-> r]

\* str(e) of the TypeError / AttributeError raised for a non-mapping arguments
NotAMapping == <<"argument after ** must be a mapping">>
NoGetAttribute == <<"object has no attribute 'get'">>

----------------------------------------------------------------------------
(* databricks_mcp_core/spark_declarative_pipelines/pipelines.py:            *)
(* the keyword arguments each core function passes to the SDK client        *)

\* [PipelineLibrary(notebook=NotebookLibrary(path=path)) for path in paths]
Libraries(paths) ==
    PyList([i \in 1..Len(paths.v) |-> PyDict([k \in {"notebook"} |-> paths.v[i]])])

\* each function is given w, the outcome of the SDK call it makes, and yields
\* the call it issued together with what it returns (or raises) itself

\* create_pipeline submitting continuous=True
create_pipeline_continuous(name, root_path, catalog, schema, workspace_notebook_paths, serverless, w) ==
    Call("pipelines.create",
         [name |-> name, storage |-> root_path,
          target |-> Dotted(catalog, schema),
          libraries |-> Libraries(workspace_notebook_paths),
          continuous |-> PyBool(TRUE), serverless |-> serverless], w)

create_pipeline(name, root_path, catalog, schema, workspace_notebook_paths, serverless, w) ==
    Call("pipelines.create",
         [name |-> name, storage |-> root_path,
          target |-> Dotted(catalog, schema),
          libraries |-> Libraries(workspace_notebook_paths),
          continuous |-> PyBool(FALSE), serverless |-> serverless], w)

get_pipeline(pipeline_id, w) ==
    Call("pipelines.get", [pipeline_id |-> pipeline_id], w)

\* update_pipeline that always sends storage, also when root_path is None
update_pipeline_set_storage(pipeline_id, name, root_path, catalog, schema, workspace_notebook_paths, serverless, w) ==
    LET keys == {"pipeline_id", "storage"}
                \cup (IF Truthy(name) THEN {"name"} ELSE {})
                \cup (IF Truthy(catalog) /\ Truthy(schema) THEN {"target"} ELSE {})
                \cup (IF Truthy(workspace_notebook_paths) THEN {"libraries"} ELSE {})
                \cup (IF serverless # PyNone THEN {"serverless"} ELSE {})
    IN Call("pipelines.update",
            [k \in keys |->
                CASE k = "pipeline_id" -> pipeline_id
                  [] k = "name" -> name
                  [] k = "storage" -> root_path
                  [] k = "target" -> Dotted(catalog, schema)
                  [] k = "libraries" -> Libraries(workspace_notebook_paths)
                  [] OTHER -> serverless],
            IF w.raise THEN w ELSE Ok(PyNone))

update_pipeline(pipeline_id, name, root_path, catalog, schema, workspace_notebook_paths, serverless, w) ==
    LET keys == {"pipeline_id"}
                \cup (IF Truthy(name) THEN {"name"} ELSE {})
                \cup (IF Truthy(root_path) THEN {"storage"} ELSE {})
                \cup (IF Truthy(catalog) /\ Truthy(schema) THEN {"target"} ELSE {})
                \cup (IF Truthy(workspace_notebook_paths) THEN {"libraries"} ELSE {})
                \cup (IF serverless # PyNone THEN {"serverless"} ELSE {})
    IN Call("pipelines.update",
            [k \in keys |->
                CASE k = "pipeline_id" -> pipeline_id
                  [] k = "name" -> name
                  [] k = "storage" -> root_path
                  [] k = "target" -> Dotted(catalog, schema)
                  [] k = "libraries" -> Libraries(workspace_notebook_paths)
                  [] OTHER -> serverless],
            IF w.raise THEN w ELSE Ok(PyNone))

delete_pipeline(pipeline_id, w) ==
    Call("pipelines.delete", [pipeline_id |-> pipeline_id],
         IF w.raise THEN w ELSE Ok(PyNone))

\* start_update that leaves validate_only at the SDK default
start_update_no_flag(pipeline_id, refresh_selection, full_refresh, full_refresh_selection, validate_only, w) ==
    Call("pipelines.start_update",
         [pipeline_id |-> pipeline_id,
          refresh_selection |-> refresh_selection,
          full_refresh |-> full_refresh,
          full_refresh_selection |-> full_refresh_selection,
          validate_only |-> PyBool(FALSE)],
         IF w.raise THEN w ELSE Ok(w.value.update_id))

start_update(pipeline_id, refresh_selection, full_refresh, full_refresh_selection, validate_only, w) ==
    Call("pipelines.start_update",
         [pipeline_id |-> pipeline_id,
          refresh_selection |-> refresh_selection,
          full_refresh |-> full_refresh,
          full_refresh_selection |-> full_refresh_selection,
          validate_only |-> validate_only],
         IF w.raise THEN w ELSE Ok(w.value.update_id))

\* get_update that answers from the state a poll reported before
get_update_cached(pipeline_id, update_id, w) ==
    LET known == {i \in 1..Len(updates) :
                     /\ updates[i].update_id = update_id
                     /\ updates[i].pipeline_id = pipeline_id
                     /\ polls[i].reported \notin {"none", "unknown"}}
    IN Call("pipelines.get_update",
            [pipeline_id |-> pipeline_id, update_id |-> update_id],
            IF known = {} \/ w.raise \/ w.value.update = PyNone THEN w
            ELSE LET i == CHOOSE j \in known : TRUE
                 IN Ok([update |-> [updates[i] EXCEPT !.state = polls[i].reported]]))

get_update(pipeline_id, update_id, w) ==
    Call("pipelines.get_update",
         [pipeline_id |-> pipeline_id, update_id |-> update_id], w)

\* stop_pipeline that blocks on the SDK's stop_and_wait until the pipeline is idle
stop_pipeline_and_wait(pipeline_id, w) ==
    Call("pipelines.stop_and_wait", [pipeline_id |-> pipeline_id],
         IF w.raise THEN w ELSE Ok(PyNone))

stop_pipeline(pipeline_id, w) ==
    Call("pipelines.stop", [pipeline_id |-> pipeline_id],
         IF w.raise THEN w ELSE Ok(PyNone))

\* list(events) drains the iterator the SDK call returns: w holds every event
\* the iterator yields, and nothing here cuts the list to max_results
get_pipeline_events(pipeline_id, max_results, w) ==
    Call("pipelines.list_pipeline_events",
         [pipeline_id |-> pipeline_id, max_results |-> max_results], w)

----------------------------------------------------------------------------
(* the tool handlers *)

\* Model(**arguments): a TypeError when arguments is not a mapping, else the
\* command or the ValidationError
Construct(model, args) ==
    LET result(r) == IF r.ok THEN [kind |-> "ok", cmd |-> r.cmd]
                     ELSE [kind |-> "validation", errors |-> r.errors]
    IN IF args.t # "dict" THEN [kind |-> "typeerror"]
       ELSE result(Validate(model, args.v))

\* what one invocation did: the handler returned env after making the
\* collaborator calls cs, or an exception escaped it after the calls cs
Returned(env, cs) == [outcome |-> "returned", envelope |-> env, calls |-> cs]
Raised(cs) == [outcome |-> "raised", envelope |-> NoEnvelope, calls |-> cs]

\* the invocation of handler name with args is over, with result r
Invoked(name, args, result) ==
    \E r \in {result} :
        /\ tool' = name
        /\ arguments' = args
        /\ outcome' = r.outcome
        /\ envelope' = r.envelope
        /\ calls' = r.calls

\* InlineTool without the except ValidationError branch: a rejected input is
\* answered by the except Exception branch
InlineToolUnlisted(model, args, call, prefix, text) ==
    LET answer(in) ==
            CASE in.kind = "typeerror" ->
                   Returned(ErrorResponse(prefix, NotAMapping), <<>>)
              [] in.kind = "validation" ->
                   Returned(ErrorResponse(prefix, <<"validation", "error">>), <<>>)
              [] OTHER ->
                   IF call.result.raise
                   THEN Returned(ErrorResponse(prefix, call.result.msg), <<call>>)
                   ELSE Returned(TextResponse(text), <<call>>)
    IN answer(Construct(model, args))

\* the handlers that validate inline:
\*   try: input = Model(**arguments); result = <one core call>; return {...}
\*   except ValidationError as e: return MCPValidationError(e).to_mcp_response()
\*   except Exception as e: return {... f"<prefix>: {str(e)}", "isError": True}
\* call is the core call the handler makes with the validated input and text
\* the text it builds from the call's result
\* InlineTool that repeats a collaborator call that raised before answering
InlineToolRetrying(model, args, call, prefix, text) ==
    LET answer(in) ==
            CASE in.kind = "typeerror" ->
                   Returned(ErrorResponse(prefix, NotAMapping), <<>>)
              [] in.kind = "validation" ->
                   Returned(to_mcp_response(in.errors), <<>>)
              [] OTHER ->
                   IF call.result.raise
                   THEN Returned(ErrorResponse(prefix, call.result.msg), <<call, call>>)
                   ELSE Returned(TextResponse(text), <<call>>)
    IN answer(Construct(model, args))

InlineTool(model, args, call, prefix, text) ==
    LET answer(in) ==
            CASE in.kind = "typeerror" ->
                   Returned(ErrorResponse(prefix, NotAMapping), <<>>)
              [] in.kind = "validation" ->
                   Returned(to_mcp_response(in.errors), <<>>)
              [] OTHER ->
                   IF call.result.raise
                   THEN Returned(ErrorResponse(prefix, call.result.msg), <<call>>)
                   ELSE Returned(TextResponse(text), <<call>>)
    IN answer(Construct(model, args))

Remote == <<updates, stopping, polls>>

create_pipeline_tool(args, w) ==
    /\ Invoked("create_pipeline", args,
           LET body(c) ==
                   LET text(res) ==
                           [title |-> "Pipeline created successfully!",
                            pipeline_id |-> res.pipeline_id,
                            name |-> c["name"],
                            target |-> Dotted(c["catalog"], c["schema"]),
                            storage |-> c["root_path"],
                            serverless |-> c["serverless"]]
                       respond(call) ==
                           InlineTool(CreatePipelineInput, args, call, "Error creating pipeline",
                                      text(call.result.value))
                   IN respond(create_pipeline(c["name"], c["root_path"], c["catalog"],
                                              c["schema"], c["workspace_notebook_paths"],
                                              c["serverless"], w))
           IN body(Construct(CreatePipelineInput, args).cmd))
    /\ UNCHANGED Remote

get_pipeline_tool(args, w) ==
    /\ Invoked("get_pipeline", args,
           LET body(c) ==
                   LET text(res) ==
                           [title |-> "Pipeline Details",
                            pipeline_id |-> c["pipeline_id"],
                            full |-> res]
                       respond(call) ==
                           InlineTool(GetPipelineInput, args, call, "Error getting pipeline",
                                      text(call.result.value))
                   IN respond(get_pipeline(c["pipeline_id"], w))
           IN body(Construct(GetPipelineInput, args).cmd))
    /\ UNCHANGED Remote

update_pipeline_config_tool(args, w) ==
    /\ Invoked("update_pipeline_config", args,
           LET body(c) ==
                   LET text(res) ==
                           [title |-> "Pipeline configuration updated successfully!",
                            pipeline_id |-> c["pipeline_id"]]
                       respond(call) ==
                           InlineTool(UpdatePipelineInput, args, call, "Error updating pipeline",
                                      text(call.result.value))
                   IN respond(update_pipeline(c["pipeline_id"], c["name"],
                                              c["root_path"], c["catalog"], c["schema"],
                                              c["workspace_notebook_paths"], c["serverless"], w))
           IN body(Construct(UpdatePipelineInput, args).cmd))
    /\ UNCHANGED Remote

delete_pipeline_tool(args, w) ==
    /\ Invoked("delete_pipeline", args,
           LET body(c) ==
                   LET text(res) ==
                           [title |-> "Pipeline deleted successfully!",
                            pipeline_id |-> c["pipeline_id"]]
                       respond(call) ==
                           InlineTool(DeletePipelineInput, args, call, "Error deleting pipeline",
                                      text(call.result.value))
                   IN respond(delete_pipeline(c["pipeline_id"], w))
           IN body(Construct(DeletePipelineInput, args).cmd))
    /\ UNCHANGED Remote

\* the remote platform's answer to pipelines.start_update: a fault, or the id
\* of the update it creates
UpdateIdName(i) ==
    PyStr(<<CASE i = 1 -> "u1" [] i = 2 -> "u2" [] i = 3 -> "u3" [] i = 4 -> "u4"
              [] OTHER -> "u5">>)

PlatformStartUpdate(fault) ==
    IF fault # "none" THEN Raise(<<"start_update", "rejected">>)
    ELSE Ok([update_id |-> UpdateIdName(Len(updates) + 1)])

\* the remote platform's answer to pipelines.get_update: a fault, a response
\* without update info, or the update as the platform knows it now
UpdateIndex(pipeline_id, update_id) ==
    {i \in 1..Len(updates) : /\ updates[i].update_id = update_id
                              /\ updates[i].pipeline_id = pipeline_id}

PlatformGetUpdate(pipeline_id, update_id, fault) ==
    IF fault = "raise" \/ UpdateIndex(pipeline_id, update_id) = {}
    THEN Raise(<<"update", "not", "found">>)
    ELSE IF fault = "empty" THEN Ok([update |-> PyNone])
    ELSE Ok([update |-> updates[CHOOSE i \in UpdateIndex(pipeline_id, update_id) : TRUE]])

Terminal == {"COMPLETED", "FAILED", "CANCELED"}

\* no status poll has reported this update yet
NoPoll == [reported |-> "none", remote |-> "none", changed |-> FALSE]

\* what the calls cs of one invocation do to the remote platform
RemoteEffect(cs) ==
    LET started == {i \in 1..Len(cs) :
                       cs[i].op = "pipelines.start_update" /\ ~cs[i].result.raise}
        stopped == {cs[i].kwargs.pipeline_id : i \in
                       {j \in 1..Len(cs) :
                           cs[j].op = "pipelines.stop" /\ ~cs[j].result.raise}}
        live(pid) == \E i \in 1..Len(updates) :
                        updates[i].pipeline_id = pid /\ updates[i].state \notin Terminal
    IN /\ IF started = {} THEN UNCHANGED updates
          ELSE LET c == cs[CHOOSE i \in started : TRUE]
               IN updates' = Append(updates,
                      [pipeline_id |-> c.kwargs.pipeline_id,
                       update_id |-> c.result.value,
                       state |-> "QUEUED",
                       validate_only |-> c.kwargs.validate_only.v])
       /\ polls' = IF started = {} THEN polls ELSE Append(polls, NoPoll)
       /\ stopping' = stopping \cup {pid \in stopped : live(pid)}

\* start_pipeline_update_tool that polls the update once before returning
start_pipeline_update_tool_polling(args, fault) ==
    /\ fault = "none" => Len(updates) < MaxUpdates
    /\ Invoked("start_pipeline_update", args,
           LET body(c) ==
                   LET text(res) ==
                           [title |-> "Pipeline update started!",
                            pipeline_id |-> c["pipeline_id"],
                            update_id |-> res,
                            full_refresh |-> c["full_refresh"]]
                       polled(r) ==
                           IF r.calls = <<>> \/ r.calls[1].result.raise THEN r
                           ELSE [r EXCEPT !.calls =
                                    r.calls \o <<get_update(r.calls[1].kwargs.pipeline_id,
                                                            r.calls[1].result.value,
                                                            Ok([update |-> PyNone]))>>]
                       respond(call) ==
                           polled(InlineTool(StartPipelineUpdateInput, args, call,
                                             "Error starting update",
                                             text(call.result.value)))
                   IN respond(start_update(c["pipeline_id"], c["refresh_selection"],
                                           c["full_refresh"], c["full_refresh_selection"],
                                           PyBool(FALSE), PlatformStartUpdate(fault)))
           IN body(Construct(StartPipelineUpdateInput, args).cmd))
    /\ RemoteEffect(calls')

start_pipeline_update_tool(args, fault) ==
    /\ fault = "none" => Len(updates) < MaxUpdates
    /\ Invoked("start_pipeline_update", args,
           LET body(c) ==
                   LET text(res) ==
                           [title |-> "Pipeline update started!",
                            pipeline_id |-> c["pipeline_id"],
                            update_id |-> res,
                            full_refresh |-> c["full_refresh"]]
                       respond(call) ==
                           InlineTool(StartPipelineUpdateInput, args, call,
                                      "Error starting update",
                                      text(call.result.value))
                   IN respond(start_update(c["pipeline_id"], c["refresh_selection"],
                                           c["full_refresh"], c["full_refresh_selection"],
                                           PyBool(FALSE), PlatformStartUpdate(fault)))
           IN body(Construct(StartPipelineUpdateInput, args).cmd))
    /\ RemoteEffect(calls')

validate_pipeline_tool(args, fault) ==
    /\ fault = "none" => Len(updates) < MaxUpdates
    /\ Invoked("validate_pipeline", args,
           LET body(c) ==
                   LET text(res) ==
                           [title |-> "Pipeline validation started (dry-run mode)!",
                            pipeline_id |-> c["pipeline_id"],
                            update_id |-> res]
                       respond(call) ==
                           InlineTool(ValidatePipelineInput, args, call, "Error starting validation",
                                      text(call.result.value))
                   IN respond(start_update(c["pipeline_id"], c["refresh_selection"],
                                           c["full_refresh"], c["full_refresh_selection"],
                                           PyBool(TRUE), PlatformStartUpdate(fault)))
           IN body(Construct(ValidatePipelineInput, args).cmd))
    /\ RemoteEffect(calls')

\* the emoji dict without an entry for CANCELED
StateEmojiNoCanceled(state) ==
    CASE state = "QUEUED" -> "hourglass"
      [] state = "RUNNING" -> "arrows"
      [] state = "COMPLETED" -> "check"
      [] state = "FAILED" -> "cross"
      [] OTHER -> "question"

\* the emoji dict of get_pipeline_update_status_tool and its .get default
StateEmoji(state) ==
    CASE state = "QUEUED" -> "hourglass"
      [] state = "RUNNING" -> "arrows"
      [] state = "COMPLETED" -> "check"
      [] state = "FAILED" -> "cross"
      [] state = "CANCELED" -> "prohibited"
      [] OTHER -> "question"

\* StatusText that takes a response without update info for a running update
StatusTextDefaultRunning(c, res) ==
    LET state == IF res.update # PyNone THEN res.update.state ELSE "RUNNING"
    IN [emoji |-> StateEmoji(state),
        title |-> "Pipeline Update Status",
        state |-> state,
        pipeline_id |-> c["pipeline_id"],
        update_id |-> c["update_id"],
        full |-> res]

\* the text get_pipeline_update_status_tool builds from a GetUpdateResponse
StatusText(c, res) ==
    LET state == IF res.update # PyNone THEN res.update.state ELSE "unknown"
    IN [emoji |-> StateEmoji(state),
        title |-> "Pipeline Update Status",
        state |-> state,
        pipeline_id |-> c["pipeline_id"],
        update_id |-> c["update_id"],
        full |-> res]

get_pipeline_update_status_tool(args, fault) ==
    /\ Invoked("get_pipeline_update_status", args,
           LET body(c) ==
                   LET text(res) ==
                           StatusText(c, res)
                       respond(call) ==
                           InlineTool(GetPipelineUpdateStatusInput, args, call, "Error getting update status",
                                      text(call.result.value))
                   IN respond(get_update(c["pipeline_id"], c["update_id"],
                                         PlatformGetUpdate(c["pipeline_id"], c["update_id"],
                                         fault)))
           IN body(Construct(GetPipelineUpdateStatusInput, args).cmd))
    /\ polls' = IF "isError" \in DOMAIN envelope'
                THEN polls
                ELSE LET text == envelope'.content[1].text
                         us == UpdateIndex(text.pipeline_id, text.update_id)
                     IN [i \in DOMAIN polls |->
                            IF i \in us
                            THEN [reported |-> text.state,
                                  remote |-> updates[i].state,
                                  changed |-> /\ polls[i].reported # "none"
                                              /\ polls[i].reported # text.state]
                            ELSE polls[i]]
    /\ UNCHANGED <<updates, stopping>>

stop_pipeline_tool(args, w) ==
    /\ Invoked("stop_pipeline", args,
           LET body(c) ==
                   LET text(res) ==
                           [title |-> "Pipeline stop request sent!",
                            pipeline_id |-> c["pipeline_id"]]
                       respond(call) ==
                           InlineTool(StopPipelineInput, args, call, "Error stopping pipeline",
                                      text(call.result.value))
                   IN respond(stop_pipeline(c["pipeline_id"], w))
           IN body(Construct(StopPipelineInput, args).cmd))
    /\ RemoteEffect(calls')

\* an error test that goes by the event's level instead of its event_type
IsErrorEventByLevel(e) == e.level = "ERROR"

\* e.event_type and e.event_type.endswith("_failed")
IsErrorEvent(e) ==
    /\ Truthy(e.event_type)
    /\ e.event_type.v[Len(e.event_type.v)] = "_failed"

get_pipeline_events_tool(args, w) ==
    /\ Invoked("get_pipeline_events", args,
           LET body(c) ==
                   LET text(events) ==
                           [title |-> "Pipeline Events",
                            pipeline_id |-> c["pipeline_id"],
                            event_count |-> Len(events),
                            error_count |->
                            Cardinality({i \in 1..Len(events) : IsErrorEvent(events[i])}),
                            events |-> events]
                       respond(call) ==
                           InlineTool(GetPipelineEventsInput, args, call, "Error getting pipeline events",
                                      text(call.result.value))
                   IN respond(get_pipeline_events(c["pipeline_id"], c["max_results"], w))
           IN body(Construct(GetPipelineEventsInput, args).cmd))
    /\ UNCHANGED Remote

\* workspace file tools: the core module workspace_files is called positionally

list_pipeline_files_tool(args, w) ==
    /\ Invoked("list_pipeline_files", args,
           LET body(c) ==
                   LET text(res) ==
                           [title |-> "Files in", result |-> res]
                       respond(call) ==
                           InlineTool(ListPipelineFilesInput, args, call, "Error listing files",
                                      text(call.result.value))
                   IN respond(Call("workspace_files.list_files", <<c["path"]>>, w))
           IN body(Construct(ListPipelineFilesInput, args).cmd))
    /\ UNCHANGED Remote

get_pipeline_file_status_tool(args, w) ==
    /\ Invoked("get_pipeline_file_status", args,
           LET body(c) ==
                   LET text(res) ==
                           [title |-> "File Status", result |-> res]
                       respond(call) ==
                           InlineTool(GetPipelineFileStatusInput, args, call, "Error getting file status",
                                      text(call.result.value))
                   IN respond(Call("workspace_files.get_file_status", <<c["path"]>>, w))
           IN body(Construct(GetPipelineFileStatusInput, args).cmd))
    /\ UNCHANGED Remote

read_pipeline_file_tool(args, w) ==
    /\ Invoked("read_pipeline_file", args,
           LET body(c) ==
                   LET text(res) ==
                           [title |-> "File:", result |-> res]
                       respond(call) ==
                           InlineTool(ReadPipelineFileInput, args, call, "Error reading file",
                                      text(call.result.value))
                   IN respond(Call("workspace_files.read_file", <<c["path"]>>, w))
           IN body(Construct(ReadPipelineFileInput, args).cmd))
    /\ UNCHANGED Remote

write_pipeline_file_tool(args, w) ==
    /\ Invoked("write_pipeline_file", args,
           LET body(c) ==
                   LET text(res) ==
                           [title |-> "File written successfully!", result |-> res]
                       respond(call) ==
                           InlineTool(WritePipelineFileInput, args, call, "Error writing file",
                                      text(call.result.value))
                   IN respond(Call("workspace_files.write_file", [path |-> c["path"], content |-> c["content"],
                                   language |-> c["language"], overwrite |-> c["overwrite"]], w))
           IN body(Construct(WritePipelineFileInput, args).cmd))
    /\ UNCHANGED Remote

create_pipeline_directory_tool(args, w) ==
    /\ Invoked("create_pipeline_directory", args,
           LET body(c) ==
                   LET text(res) ==
                           [title |-> "Directory created successfully!", result |-> res]
                       respond(call) ==
                           InlineTool(CreatePipelineDirectoryInput, args, call, "Error creating directory",
                                      text(call.result.value))
                   IN respond(Call("workspace_files.create_directory", <<c["path"]>>, w))
           IN body(Construct(CreatePipelineDirectoryInput, args).cmd))
    /\ UNCHANGED Remote

delete_pipeline_path_tool(args, w) ==
    /\ Invoked("delete_pipeline_path", args,
           LET body(c) ==
                   LET text(res) ==
                           [title |-> "Path deleted successfully!", result |-> res]
                       respond(call) ==
                           InlineTool(DeletePipelinePathInput, args, call, "Error deleting path",
                                      text(call.result.value))
                   IN respond(Call("workspace_files.delete_path", <<c["path"], c["recursive"]>>, w))
           IN body(Construct(DeletePipelinePathInput, args).cmd))
    /\ UNCHANGED Remote

\* tools/unity_catalog.py

list_catalogs_tool(args, w) ==
    /\ Invoked("list_catalogs", args,
           LET body(c) ==
                   LET text(res) ==
                           [title |-> "Found catalogs", result |-> res]
                       respond(call) ==
                           InlineTool(ListCatalogsInput, args, call, "Error",
                                      text(call.result.value))
                   IN respond(Call("catalogs.list_catalogs", <<>>, w))
           IN body(Construct(ListCatalogsInput, args).cmd))
    /\ UNCHANGED Remote

get_catalog_tool(args, w) ==
    /\ Invoked("get_catalog", args,
           LET body(c) ==
                   LET text(res) ==
                           [title |-> "Catalog:", result |-> res]
                       respond(call) ==
                           InlineTool(GetCatalogInput, args, call, "Error",
                                      text(call.result.value))
                   IN respond(Call("catalogs.get_catalog", <<c["catalog_name"]>>, w))
           IN body(Construct(GetCatalogInput, args).cmd))
    /\ UNCHANGED Remote

list_schemas_tool(args, w) ==
    /\ Invoked("list_schemas", args,
           LET body(c) ==
                   LET text(res) ==
                           [title |-> "Found schemas", result |-> res]
                       respond(call) ==
                           InlineTool(ListSchemasInput, args, call, "Error",
                                      text(call.result.value))
                   IN respond(Call("schemas.list_schemas", <<c["catalog_name"]>>, w))
           IN body(Construct(ListSchemasInput, args).cmd))
    /\ UNCHANGED Remote

create_schema_tool(args, w) ==
    /\ Invoked("create_schema", args,
           LET body(c) ==
                   LET text(res) ==
                           [title |-> "Schema created successfully!", result |-> res]
                       respond(call) ==
                           InlineTool(CreateSchemaInput, args, call, "Error creating schema",
                                      text(call.result.value))
                   IN respond(Call("schemas.create_schema", <<c["catalog_name"], c["schema_name"], c["comment"]>>, w))
           IN body(Construct(CreateSchemaInput, args).cmd))
    /\ UNCHANGED Remote

update_schema_tool(args, w) ==
    /\ Invoked("update_schema", args,
           LET body(c) ==
                   LET text(res) ==
                           [title |-> "Schema updated successfully!", result |-> res]
                       respond(call) ==
                           InlineTool(UpdateSchemaInput, args, call, "Error updating schema",
                                      text(call.result.value))
                   IN respond(Call("schemas.update_schema", <<Dotted(c["catalog_name"], c["schema_name"]), c["new_name"],
                                   c["comment"], PyNone>>, w))
           IN body(Construct(UpdateSchemaInput, args).cmd))
    /\ UNCHANGED Remote

delete_schema_tool(args, w) ==
    /\ Invoked("delete_schema", args,
           LET body(c) ==
                   LET text(res) ==
                           [title |-> "Schema deleted successfully!", result |-> res]
                       respond(call) ==
                           InlineTool(DeleteSchemaInput, args, call, "Error deleting schema",
                                      text(call.result.value))
                   IN respond(Call("schemas.delete_schema", <<Dotted(c["catalog_name"], c["schema_name"])>>, w))
           IN body(Construct(DeleteSchemaInput, args).cmd))
    /\ UNCHANGED Remote

list_tables_tool(args, w) ==
    /\ Invoked("list_tables", args,
           LET body(c) ==
                   LET text(res) ==
                           [title |-> "Found tables", result |-> res]
                       respond(call) ==
                           InlineTool(ListTablesInput, args, call, "Error",
                                      text(call.result.value))
                   IN respond(Call("tables.list_tables", <<c["catalog_name"], c["schema_name"]>>, w))
           IN body(Construct(ListTablesInput, args).cmd))
    /\ UNCHANGED Remote

\* the handlers without an input model:
\*   try: x = arguments.get(key); result = <one core call>(x); return {...}
\*   except Exception as e: return {... "isError": True}
UnvalidatedTool(args, key, op, prefix, title, w) ==
    LET respond(c) ==
            IF c.result.raise
            THEN Returned(ErrorResponse(prefix, c.result.msg), <<c>>)
            ELSE Returned(TextResponse([title |-> title, result |-> c.result.value]),
                          <<c>>)
    IN IF args.t # "dict"
       THEN Returned(ErrorResponse(prefix, NoGetAttribute), <<>>)
       ELSE respond(Call(op, <<IF key \in DOMAIN args.v THEN args.v[key] ELSE PyNone>>,
                         w))

get_schema_tool(args, w) ==
    /\ Invoked("get_schema", args,
               UnvalidatedTool(args, "full_schema_name", "schemas.get_schema",
                               "Error", "Schema:", w))
    /\ UNCHANGED Remote

get_table_tool(args, w) ==
    /\ Invoked("get_table", args,
               UnvalidatedTool(args, "full_table_name", "tables.get_table",
                               "Error", "Table:", w))
    /\ UNCHANGED Remote

delete_table_tool(args, w) ==
    /\ Invoked("delete_table", args,
               UnvalidatedTool(args, "full_table_name", "tables.delete_table",
                               "Error deleting table", "Table deleted successfully!", w))
    /\ UNCHANGED Remote

\* members of the SDK's ColumnTypeName that occur in the model
ColumnTypeNames == {<<"STRING">>, <<"INT">>, <<"DOUBLE">>}

\* ColumnModel.to_sdk over input.columns: ColumnTypeName(type_name) raises
\* ValueError for a name that is not a member
ColumnsToSdk(columns) ==
    IF \A i \in 1..Len(columns.v) : columns.v[i].v["type_name"].v \in ColumnTypeNames
    THEN Ok(columns)
    ELSE Raise(<<"is not a valid ColumnTypeName">>)

create_table_tool(args, w) ==
    /\ Invoked("create_table", args,
           LET prefix == "Error creating table"
               respond(cols, c) ==
                   IF cols.raise
                   THEN Returned(ErrorResponse(prefix, cols.msg), <<>>)
                   ELSE IF c.result.raise
                   THEN Returned(ErrorResponse(prefix, c.result.msg), <<c>>)
                   ELSE Returned(TextResponse([title |-> "Table created successfully!",
                                               result |-> c.result.value]), <<c>>)
               body(in) ==
                   CASE in.kind = "typeerror" ->
                          Returned(ErrorResponse(prefix, NotAMapping), <<>>)
                     [] in.kind = "validation" ->
                          Returned(to_mcp_response(in.errors), <<>>)
                     [] OTHER ->
                          respond(ColumnsToSdk(in.cmd["columns"]),
                                  Call("tables.create_table",
                                       <<in.cmd["catalog_name"], in.cmd["schema_name"],
                                         in.cmd["table_name"], in.cmd["columns"],
                                         PyStr(in.cmd["table_type"].v), in.cmd["comment"],
                                         in.cmd["storage_location"]>>, w))
           IN body(Construct(CreateTableInput, args)))
    /\ UNCHANGED Remote

\* tools/compute.py: handlers wrapped by @validate_input(Model)
\*   try: validated_input = model(**arguments); return func(validated_input)
\*   except ValidationError as e: return MCPValidationError(e).to_mcp_response()
\* returned is what func(validated_input) returns
validate_input(model, args, returned) ==
    LET answer(in) ==
            CASE in.kind = "typeerror" -> Raised(<<>>)
              [] in.kind = "validation" ->
                   Returned(to_mcp_response(in.errors), <<>>)
              [] OTHER -> returned
    IN answer(Construct(model, args))

\* ComputeBody whose except branch leaves isError out of the envelope
ComputeBodyUnflagged(c, prefix, response) ==
    IF c.result.raise
    THEN Returned(TextResponse([title |-> prefix, error |-> c.result.msg]), <<c>>)
    ELSE Returned(response, <<c>>)

\* the body of a compute handler: one core call c inside try / except
\* Exception; response is the envelope built from the value c returned
ComputeBody(c, prefix, response) ==
    IF c.result.raise
    THEN Returned(ErrorResponse(prefix, c.result.msg), <<c>>)
    ELSE Returned(response, <<c>>)

\* ExecutionResponse without the isError flag on a failed execution
ExecutionResponseUnflagged(result) ==
    IF result.success THEN TextResponse(result.output)
    ELSE TextResponse([title |-> "Error", error |-> result.error])

\* if result.success: output as text, else f"Error: {result.error}" with isError
ExecutionResponse(result) ==
    IF result.success THEN TextResponse(result.output)
    ELSE ErrorResponse("Error", result.error)

\* execution.execute_databricks_command, the one-off command of the core:
\* create a context, execute the code in it, destroy the context on every
\* way out. created and executed are the outcomes of the first two steps
\* (executed raises also when the timeout expires); the result carries the
\* steps taken on the cluster.
execute_databricks_command(created, executed) ==
    LET step(op) == [op |-> op, context_id |-> created.value]
        steps == <<step("create_context"), step("execute_command"),
                   step("destroy_context")>>
    IN IF created.raise
       THEN [raise |-> TRUE, msg |-> created.msg, steps |-> <<>>]
       ELSE IF executed.raise
       THEN [raise |-> TRUE, msg |-> executed.msg, steps |-> steps]
       ELSE [raise |-> FALSE, value |-> executed.value, steps |-> steps]

create_context_tool(args, w) ==
    /\ Invoked("create_context", args,
           LET body(input) ==
                   LET respond(call) ==
                           ComputeBody(call, "Error creating context",
                               TextResponse([title |-> "Context created successfully!",
                                             context_id |-> call.result.value,
                                             cluster_id |-> input["cluster_id"],
                                             language |-> input["language"]]))
                   IN respond(Call("execution.create_context",
                                   <<input["cluster_id"], input["language"]>>, w))
           IN validate_input(CreateContextInput, args,
                             body(Construct(CreateContextInput, args).cmd)))
    /\ UNCHANGED Remote

execute_command_with_context_tool(args, w) ==
    /\ Invoked("execute_command_with_context", args,
           LET body(input) ==
                   LET respond(call) ==
                           ComputeBody(call, "Error",
                                       ExecutionResponse(call.result.value))
                   IN respond(Call("execution.execute_command_with_context",
                                   <<input["cluster_id"], input["context_id"],
                                   input["code"]>>, w))
           IN validate_input(ExecuteCommandWithContextInput, args,
                             body(Construct(ExecuteCommandWithContextInput, args).cmd)))
    /\ UNCHANGED Remote

destroy_context_tool(args, w) ==
    /\ Invoked("destroy_context", args,
           LET body(input) ==
                   LET respond(call) ==
                           ComputeBody(call, "Error destroying context",
                               TextResponse([title |-> "Context destroyed successfully!",
                                             context_id |-> input["context_id"]]))
                   IN respond(Call("execution.destroy_context",
                                   <<input["cluster_id"], input["context_id"]>>, w))
           IN validate_input(DestroyContextInput, args,
                             body(Construct(DestroyContextInput, args).cmd)))
    /\ UNCHANGED Remote

databricks_command_tool(args, w) ==
    /\ Invoked("databricks_command", args,
           LET body(input) ==
                   LET respond(call) ==
                           ComputeBody(call, "Error",
                                       ExecutionResponse(call.result.value))
                   IN respond(Call("execution.execute_databricks_command",
                                   <<input["cluster_id"], input["language"],
                                   input["code"], input["timeout"]>>, w))
           IN validate_input(DatabricksCommandInput, args,
                             body(Construct(DatabricksCommandInput, args).cmd)))
    /\ UNCHANGED Remote

----------------------------------------------------------------------------
(* the remote platform's own transitions of an update *)

Stopping(i) == updates[i].pipeline_id \in stopping

RemoteRun(i) ==
    /\ i \in 1..Len(updates)
    /\ updates[i].state = "QUEUED"
    /\ ~Stopping(i)
    /\ updates' = [updates EXCEPT ![i].state = "RUNNING"]
    /\ UNCHANGED <<tool, arguments, outcome, envelope, calls, stopping, polls>>

RemoteFinish(i, state) ==
    /\ i \in 1..Len(updates)
    /\ updates[i].state = "RUNNING"
    /\ ~Stopping(i)
    /\ state \in {"COMPLETED", "FAILED"}
    /\ updates' = [updates EXCEPT ![i].state = state]
    /\ UNCHANGED <<tool, arguments, outcome, envelope, calls, stopping, polls>>

RemoteCancel(i) ==
    /\ i \in 1..Len(updates)
    /\ updates[i].state \notin Terminal
    /\ Stopping(i)
    /\ updates' = [updates EXCEPT ![i].state = "CANCELED"]
    /\ stopping' =
          IF \E j \in 1..Len(updates) :
                /\ j # i
                /\ updates[j].pipeline_id = updates[i].pipeline_id
                /\ updates[j].state \notin Terminal
          THEN stopping ELSE stopping \ {updates[i].pipeline_id}
    /\ UNCHANGED <<tool, arguments, outcome, envelope, calls, polls>>

----------------------------------------------------------------------------
(* the argument values the handlers are invoked with *)

Absent == [t |-> "absent", v |-> "absent"]

\* m with key k bound to x
With(m, k, x) == [j \in DOMAIN m \cup {k} |-> IF j = k THEN x ELSE m[j]]

\* m without key k
Without(m, k) == [j \in DOMAIN m \ {k} |-> m[j]]

\* every mapping that binds each key keys[i] to a member of cands[i], or
\* leaves it out where the member is Absent
RECURSIVE ArgMaps(_, _)
ArgMaps(keys, cands) ==
    IF keys = <<>> THEN {EmptyMap}
    ELSE LET rest == ArgMaps(Tail(keys), Tail(cands))
         IN UNION {{IF x = Absent THEN m ELSE With(m, Head(keys), x) : m \in rest}
                   : x \in Head(cands)}

P1 == PyStr(<<"p1">>)
U1 == PyStr(<<"u1">>)

\* a value field f accepts
Sample(f) ==
    CASE f.name = "pipeline_id" -> P1
      [] f.name = "update_id" -> U1
      [] f.ty = "str" -> PyStr(<<" ", "v">>)
      [] f.ty = "bool" -> PyBool(TRUE)
      [] f.ty = "int" -> PyInt(5)
      [] f.ty = "enum" -> PyStr(CHOOSE e \in f.enum : TRUE)
      [] f.ty = "liststr" -> PyList(<<PyStr(<<"/nb">>)>>)
      [] OTHER -> PyList(<<PyDict([k \in {"name", "type_name"} |->
                             IF k = "name" THEN PyStr(<<"id">>)
                             ELSE PyStr(<<"STRING">>)])>>)

\* a value field f rejects
Wrong(f) ==
    CASE f.ty = "str" -> PyInt(7)
      [] f.ty = "bool" -> PyStr(<<"maybe">>)
      [] f.ty = "int" -> IF f.bounded THEN PyInt(f.le + 1) ELSE PyStr(<<"x">>)
      [] f.ty = "enum" -> PyStr(<<"cobol">>)
      [] f.ty = "liststr" -> PyStr(<<"/nb">>)
      [] OTHER -> PyList(<<>>)

\* the mapping that supplies exactly the required fields of a model
BaseArgs(model) ==
    LET req == {i \in 1..Len(model.fields) : model.fields[i].required}
    IN [n \in {model.fields[i].name : i \in req} |->
           Sample(FieldNamed(model.fields, n))]

\* the mapping that supplies every field of a model
FullArgs(model) ==
    [n \in FieldNames(model.fields) |-> Sample(FieldNamed(model.fields, n))]

\* null, the empty mapping, the base mapping, the full mapping, and the base
\* mapping with an unknown key added, the base or full mapping with one key
\* dropped, the base mapping with one field replaced by a value the model
\* rejects, and the base mapping with one required string replaced by the
\* empty string or by whitespace only
GenericArgs(model) ==
    {PyNone, PyDict(EmptyMap), PyDict(BaseArgs(model)), PyDict(FullArgs(model)),
     PyDict(With(BaseArgs(model), "unknown_key", PyInt(1)))}
    \cup {PyDict(Without(m, model.fields[i].name))
             : m \in {BaseArgs(model), FullArgs(model)}, i \in DOMAIN model.fields}
    \cup {PyDict(With(BaseArgs(model), model.fields[i].name, Wrong(model.fields[i])))
             : i \in DOMAIN model.fields}
    \cup {PyDict(With(BaseArgs(model), model.fields[i].name, b))
             : i \in {j \in DOMAIN model.fields :
                         model.fields[j].required /\ model.fields[j].ty = "str"},
               b \in {PyStr(<<>>), PyStr(<<" ", " ">>)}}

\* arguments for a handler that reads one key without a model
KeyArgs(key) ==
    {PyNone, PyDict(EmptyMap), PyDict([k \in {key} |-> PyStr(<<"c", ".", "s">>)]),
     PyDict([k \in {"unknown_key"} |-> PyInt(1)])}

\* outcomes of a collaborator call
Faults == {Raise(<<"PERMISSION_DENIED">>)}

Results(values) == {Ok(x) : x \in values} \cup Faults

NoValue == {PyNone}

PipelineIds == {[pipeline_id |-> P1]}

ExecutionResults ==
    {[success |-> TRUE, output |-> <<"42">>],
     [success |-> FALSE, error |-> <<"ZeroDivisionError">>]}

EventLists ==
    {<<>>,
     <<[event_type |-> PyStr(<<"flow", "_failed">>), level |-> "ERROR"],
       [event_type |-> PyStr(<<"flow", "_progress">>), level |-> "INFO"],
       [event_type |-> PyStr(<<"update", "_failed">>), level |-> "ERROR"]>>,
     <<[event_type |-> PyNone, level |-> "ERROR"],
       [event_type |-> PyStr(<<"_failed", "_recovered">>), level |-> "ERROR"]>>}

StartFaults == {"none", "raise"}
PollFaults == {"none", "raise", "empty"}

----------------------------------------------------------------------------
(* the specification: one invocation of any tool handler, with any         *)
(* arguments, against any state of the remote platform                     *)

UpdateStates == {"QUEUED", "RUNNING", "COMPLETED", "FAILED", "CANCELED"}

\* the updates the remote platform may hold when a handler is invoked, in
\* one of the five states the handlers name or in a state they do not name
RemoteUpdates ==
    {<<>>} \cup UNION {
        {[i \in 1..n |-> [pipeline_id |-> P1, update_id |-> UpdateIdName(i),
                          state |-> st[i], validate_only |-> vo[i]]]
            : st \in [1..n -> UpdateStates \cup {"WAITING_FOR_RESOURCES"}],
              vo \in [1..n -> BOOLEAN]}
        : n \in 1..MaxUpdates}

Init ==
    /\ tool = ""
    /\ arguments = PyNone
    /\ outcome = "init"
    /\ envelope = NoEnvelope
    /\ calls = <<>>
    /\ updates \in RemoteUpdates
    /\ stopping = {}
    /\ polls = [i \in DOMAIN updates |-> NoPoll]

\* TOOL_HANDLERS where the compute module also registers get_table
TOOL_HANDLERS_Shadowed ==
    <<<<"create_pipeline", "get_pipeline", "update_pipeline_config",
        "delete_pipeline", "start_pipeline_update", "validate_pipeline",
        "get_pipeline_update_status", "stop_pipeline", "get_pipeline_events",
        "list_pipeline_files", "get_pipeline_file_status", "read_pipeline_file",
        "write_pipeline_file", "create_pipeline_directory",
        "delete_pipeline_path">>,
      <<"list_catalogs", "get_catalog", "list_schemas", "get_schema",
        "create_schema", "update_schema", "delete_schema", "list_tables",
        "get_table", "create_table", "delete_table">>,
      <<"create_context", "execute_command_with_context", "destroy_context",
        "databricks_command", "get_table">>>>

\* the keys of the TOOL_HANDLERS map of each tool module, as written, in the
\* order pipelines, unity_catalog, compute
TOOL_HANDLERS ==
    <<<<"create_pipeline", "get_pipeline", "update_pipeline_config",
        "delete_pipeline", "start_pipeline_update", "validate_pipeline",
        "get_pipeline_update_status", "stop_pipeline", "get_pipeline_events",
        "list_pipeline_files", "get_pipeline_file_status", "read_pipeline_file",
        "write_pipeline_file", "create_pipeline_directory",
        "delete_pipeline_path">>,
      <<"list_catalogs", "get_catalog", "list_schemas", "get_schema",
        "create_schema", "update_schema", "delete_schema", "list_tables",
        "get_table", "create_table", "delete_table">>,
      <<"create_context", "execute_command_with_context", "destroy_context",
        "databricks_command">>>>

\* get_tool_definitions() of the three tool modules, in the order pipelines,
\* unity_catalog, compute: the name of each definition and, of its
\* inputSchema, the type of each property, the required list and the
\* published defaults
ToolDefinitions ==
    <<
      [name |-> "create_pipeline", properties |-> ("name" :> "string" @@
         "root_path" :> "string" @@ "catalog" :> "string" @@ "schema" :>
         "string" @@ "workspace_notebook_paths" :> "array" @@ "serverless" :>
         "boolean"), required |-> {"name", "root_path", "catalog", "schema",
         "workspace_notebook_paths"}, defaults |-> ("serverless" :>
         PyBool(TRUE))],
      [name |-> "get_pipeline", properties |-> ("pipeline_id" :> "string"),
         required |-> {"pipeline_id"}, defaults |-> EmptyMap],
      [name |-> "update_pipeline_config", properties |-> ("pipeline_id" :>
         "string" @@ "name" :> "string" @@ "root_path" :> "string" @@ "catalog"
         :> "string" @@ "schema" :> "string" @@ "workspace_notebook_paths" :>
         "array" @@ "serverless" :> "boolean"), required |-> {"pipeline_id"},
         defaults |-> EmptyMap],
      [name |-> "delete_pipeline", properties |-> ("pipeline_id" :> "string"),
         required |-> {"pipeline_id"}, defaults |-> EmptyMap],
      [name |-> "start_pipeline_update", properties |-> ("pipeline_id" :>
         "string" @@ "refresh_selection" :> "array" @@ "full_refresh" :>
         "boolean" @@ "full_refresh_selection" :> "array"), required |->
         {"pipeline_id"}, defaults |-> EmptyMap],
      [name |-> "validate_pipeline", properties |-> ("pipeline_id" :> "string"
         @@ "refresh_selection" :> "array" @@ "full_refresh" :> "boolean" @@
         "full_refresh_selection" :> "array"), required |-> {"pipeline_id"},
         defaults |-> EmptyMap],
      [name |-> "get_pipeline_update_status", properties |-> ("pipeline_id" :>
         "string" @@ "update_id" :> "string"), required |-> {"pipeline_id",
         "update_id"}, defaults |-> EmptyMap],
      [name |-> "stop_pipeline", properties |-> ("pipeline_id" :> "string"),
         required |-> {"pipeline_id"}, defaults |-> EmptyMap],
      [name |-> "get_pipeline_events", properties |-> ("pipeline_id" :> "string"
         @@ "max_results" :> "integer"), required |-> {"pipeline_id"}, defaults
         |-> ("max_results" :> PyInt(100))],
      [name |-> "list_pipeline_files", properties |-> ("path" :> "string"),
         required |-> {"path"}, defaults |-> EmptyMap],
      [name |-> "get_pipeline_file_status", properties |-> ("path" :> "string"),
         required |-> {"path"}, defaults |-> EmptyMap],
      [name |-> "read_pipeline_file", properties |-> ("path" :> "string"),
         required |-> {"path"}, defaults |-> EmptyMap],
      [name |-> "write_pipeline_file", properties |-> ("path" :> "string" @@
         "content" :> "string" @@ "language" :> "string" @@ "overwrite" :>
         "boolean"), required |-> {"path", "content"}, defaults |-> ("language"
         :> PyStr(<<"PYTHON">>) @@ "overwrite" :> PyBool(TRUE))],
      [name |-> "create_pipeline_directory", properties |-> ("path" :>
         "string"), required |-> {"path"}, defaults |-> EmptyMap],
      [name |-> "delete_pipeline_path", properties |-> ("path" :> "string" @@
         "recursive" :> "boolean"), required |-> {"path"}, defaults |->
         ("recursive" :> PyBool(FALSE))],
      [name |-> "list_catalogs", properties |-> EmptyMap, required |-> {},
         defaults |-> EmptyMap],
      [name |-> "get_catalog", properties |-> ("catalog_name" :> "string"),
         required |-> {"catalog_name"}, defaults |-> EmptyMap],
      [name |-> "list_schemas", properties |-> ("catalog_name" :> "string"),
         required |-> {"catalog_name"}, defaults |-> EmptyMap],
      [name |-> "get_schema", properties |-> ("full_schema_name" :> "string"),
         required |-> {"full_schema_name"}, defaults |-> EmptyMap],
      [name |-> "list_tables", properties |-> ("catalog_name" :> "string" @@
         "schema_name" :> "string"), required |-> {"catalog_name",
         "schema_name"}, defaults |-> EmptyMap],
      [name |-> "get_table", properties |-> ("full_table_name" :> "string"),
         required |-> {"full_table_name"}, defaults |-> EmptyMap],
      [name |-> "create_schema", properties |-> ("catalog_name" :> "string" @@
         "schema_name" :> "string" @@ "comment" :> "string"), required |->
         {"catalog_name", "schema_name"}, defaults |-> EmptyMap],
      [name |-> "update_schema", properties |-> ("full_schema_name" :> "string"
         @@ "new_name" :> "string" @@ "comment" :> "string" @@ "owner" :>
         "string"), required |-> {"full_schema_name"}, defaults |-> EmptyMap],
      [name |-> "delete_schema", properties |-> ("full_schema_name" :>
         "string"), required |-> {"full_schema_name"}, defaults |-> EmptyMap],
      [name |-> "create_table", properties |-> ("catalog_name" :> "string" @@
         "schema_name" :> "string" @@ "table_name" :> "string" @@ "columns" :>
         "array" @@ "table_type" :> "string" @@ "comment" :> "string" @@
         "storage_location" :> "string"), required |-> {"catalog_name",
         "schema_name", "table_name", "columns"}, defaults |-> ("table_type" :>
         PyStr(<<"MANAGED">>))],
      [name |-> "delete_table", properties |-> ("full_table_name" :> "string"),
         required |-> {"full_table_name"}, defaults |-> EmptyMap],
      [name |-> "create_context", properties |-> ("cluster_id" :> "string" @@
         "language" :> "string"), required |-> {"cluster_id"}, defaults |->
         ("language" :> PyStr(<<"python">>))],
      [name |-> "execute_command_with_context", properties |-> ("cluster_id" :>
         "string" @@ "context_id" :> "string" @@ "code" :> "string"), required
         |-> {"cluster_id", "context_id", "code"}, defaults |-> EmptyMap],
      [name |-> "destroy_context", properties |-> ("cluster_id" :> "string" @@
         "context_id" :> "string"), required |-> {"cluster_id", "context_id"},
         defaults |-> EmptyMap],
      [name |-> "databricks_command", properties |-> ("cluster_id" :> "string"
         @@ "language" :> "string" @@ "code" :> "string" @@ "timeout" :>
         "integer"), required |-> {"cluster_id", "code"}, defaults |->
         ("language" :> PyStr(<<"python">>) @@ "timeout" :> PyInt(120))]
    >>

\* the input model each validating handler constructs from its arguments
HandlerModel ==
    [n \in {"create_pipeline", "get_pipeline", "update_pipeline_config",
            "delete_pipeline", "start_pipeline_update", "validate_pipeline",
            "get_pipeline_update_status", "stop_pipeline", "get_pipeline_events",
            "list_pipeline_files", "get_pipeline_file_status", "read_pipeline_file",
            "write_pipeline_file", "create_pipeline_directory",
            "delete_pipeline_path", "list_catalogs", "get_catalog", "list_schemas",
            "create_schema", "update_schema", "delete_schema", "list_tables",
            "create_table", "create_context", "execute_command_with_context",
            "destroy_context", "databricks_command"} |->
        CASE n = "create_pipeline" -> CreatePipelineInput
          [] n = "get_pipeline" -> GetPipelineInput
          [] n = "update_pipeline_config" -> UpdatePipelineInput
          [] n = "delete_pipeline" -> DeletePipelineInput
          [] n = "start_pipeline_update" -> StartPipelineUpdateInput
          [] n = "validate_pipeline" -> ValidatePipelineInput
          [] n = "get_pipeline_update_status" -> GetPipelineUpdateStatusInput
          [] n = "stop_pipeline" -> StopPipelineInput
          [] n = "get_pipeline_events" -> GetPipelineEventsInput
          [] n = "list_pipeline_files" -> ListPipelineFilesInput
          [] n = "get_pipeline_file_status" -> GetPipelineFileStatusInput
          [] n = "read_pipeline_file" -> ReadPipelineFileInput
          [] n = "write_pipeline_file" -> WritePipelineFileInput
          [] n = "create_pipeline_directory" -> CreatePipelineDirectoryInput
          [] n = "delete_pipeline_path" -> DeletePipelinePathInput
          [] n = "list_catalogs" -> ListCatalogsInput
          [] n = "get_catalog" -> GetCatalogInput
          [] n = "list_schemas" -> ListSchemasInput
          [] n = "create_schema" -> CreateSchemaInput
          [] n = "update_schema" -> UpdateSchemaInput
          [] n = "delete_schema" -> DeleteSchemaInput
          [] n = "list_tables" -> ListTablesInput
          [] n = "create_table" -> CreateTableInput
          [] n = "create_context" -> CreateContextInput
          [] n = "execute_command_with_context" -> ExecuteCommandWithContextInput
          [] n = "destroy_context" -> DestroyContextInput
          [] OTHER -> DatabricksCommandInput]

\* the arguments each validating handler is exercised with; create_pipeline
\* also gets a continuous key and two notebook paths without serverless
\* compute, create_table
\* gets a column whose type_name is no ColumnTypeName, an EXTERNAL table with
\* no columns and no storage_location, and each table_type with and without
\* a storage_location, get_pipeline_events and databricks_command values of
\* max_results and timeout at, inside and outside the bounds, and
\* update_schema and delete_schema the properties their published
\* inputSchema requires, with and without a new_name
ToolArguments ==
    [n \in DOMAIN HandlerModel |->
        GenericArgs(HandlerModel[n])
        \cup CASE n = "create_pipeline" ->
                    {PyDict(With(BaseArgs(CreatePipelineInput), "continuous",
                                 PyBool(TRUE))),
                     PyDict(With(With(BaseArgs(CreatePipelineInput),
                                      "workspace_notebook_paths",
                                      PyList(<<PyStr(<<"/b">>), PyStr(<<"/a", " ">>)>>)),
                                 "serverless", PyBool(FALSE)))}
               [] n = "create_table" ->
                    {PyDict(With(BaseArgs(CreateTableInput), "columns",
                        PyList(<<PyDict([k \in {"name", "type_name"} |->
                                   PyStr(<<"NOT_A_TYPE">>)])>>))),
                     PyDict(With(With(BaseArgs(CreateTableInput), "columns",
                                      PyList(<<>>)),
                                 "table_type", PyStr(<<"EXTERNAL">>)))}
                    \cup {PyDict(m @@ BaseArgs(CreateTableInput))
                          : m \in ArgMaps(<<"table_type", "storage_location">>,
                              <<{Absent, PyStr(<<"MANAGED">>), PyStr(<<"EXTERNAL">>)},
                                {Absent, PyNone, PyStr(<<" ">>),
                                 PyStr(<<"s3://bucket">>)}>>)}
               [] n = "get_pipeline_events" ->
                    {PyDict(With(BaseArgs(GetPipelineEventsInput), "max_results", x))
                        : x \in {PyInt(-1), PyInt(0), PyInt(1), PyInt(2),
                                 PyInt(1000), PyInt(1001), PyStr(<<"2">>)}}
               [] n = "databricks_command" ->
                    {PyDict(With(BaseArgs(DatabricksCommandInput), "timeout", x))
                        : x \in {PyInt(-1), PyInt(0), PyInt(1), PyInt(3600),
                                 PyInt(3601), PyStr(<<"3", "6", "0", "1">>)}}
               [] n \in {"update_schema", "delete_schema"} ->
                    UNION {{PyDict(m), PyDict(With(m, "new_name", PyStr(<<"renamed">>)))}
                           : m \in {[k \in ToolDefinitions[i].required |->
                                        PyStr(<<"main", ".", "sales">>)]
                                    : i \in {j \in DOMAIN ToolDefinitions :
                                                ToolDefinitions[j].name = n}}}
               [] OTHER -> {}]

\* the arguments of the handlers that read one key, and the collaborator
\* results the handlers are exercised with
SchemaKeyArgs == KeyArgs("full_schema_name")
TableKeyArgs == KeyArgs("full_table_name")
PipelineResults == Results(PipelineIds)
PlainResults == Results(NoValue)
EventResults == Results(EventLists)
ContextResults == Results({PyStr(<<"ctx1">>)})
CommandResults == Results(ExecutionResults)

Next ==
    \/ \E a \in ToolArguments["create_pipeline"], w \in PipelineResults :
          outcome = "init" /\ create_pipeline_tool(a, w)
    \/ \E a \in ToolArguments["get_pipeline"], w \in PipelineResults :
          outcome = "init" /\ get_pipeline_tool(a, w)
    \/ \E a \in ToolArguments["update_pipeline_config"], w \in PlainResults :
          outcome = "init" /\ update_pipeline_config_tool(a, w)
    \/ \E a \in ToolArguments["delete_pipeline"], w \in PlainResults :
          outcome = "init" /\ delete_pipeline_tool(a, w)
    \/ \E a \in ToolArguments["start_pipeline_update"], f \in StartFaults :
          outcome = "init" /\ start_pipeline_update_tool(a, f)
    \/ \E a \in ToolArguments["validate_pipeline"], f \in StartFaults :
          outcome = "init" /\ validate_pipeline_tool(a, f)
    \/ \E a \in ToolArguments["get_pipeline_update_status"], f \in PollFaults :
          outcome = "init" /\ get_pipeline_update_status_tool(a, f)
    \/ \E a \in ToolArguments["stop_pipeline"], w \in PlainResults :
          outcome = "init" /\ stop_pipeline_tool(a, w)
    \/ \E a \in ToolArguments["get_pipeline_events"], w \in EventResults :
          outcome = "init" /\ get_pipeline_events_tool(a, w)
    \/ \E a \in ToolArguments["list_pipeline_files"], w \in PlainResults :
          outcome = "init" /\ list_pipeline_files_tool(a, w)
    \/ \E a \in ToolArguments["get_pipeline_file_status"], w \in PlainResults :
          outcome = "init" /\ get_pipeline_file_status_tool(a, w)
    \/ \E a \in ToolArguments["read_pipeline_file"], w \in PlainResults :
          outcome = "init" /\ read_pipeline_file_tool(a, w)
    \/ \E a \in ToolArguments["write_pipeline_file"], w \in PlainResults :
          outcome = "init" /\ write_pipeline_file_tool(a, w)
    \/ \E a \in ToolArguments["create_pipeline_directory"], w \in PlainResults :
          outcome = "init" /\ create_pipeline_directory_tool(a, w)
    \/ \E a \in ToolArguments["delete_pipeline_path"], w \in PlainResults :
          outcome = "init" /\ delete_pipeline_path_tool(a, w)
    \/ \E a \in ToolArguments["list_catalogs"], w \in PlainResults :
          outcome = "init" /\ list_catalogs_tool(a, w)
    \/ \E a \in ToolArguments["get_catalog"], w \in PlainResults :
          outcome = "init" /\ get_catalog_tool(a, w)
    \/ \E a \in ToolArguments["list_schemas"], w \in PlainResults :
          outcome = "init" /\ list_schemas_tool(a, w)
    \/ \E a \in SchemaKeyArgs, w \in PlainResults :
          outcome = "init" /\ get_schema_tool(a, w)
    \/ \E a \in ToolArguments["create_schema"], w \in PlainResults :
          outcome = "init" /\ create_schema_tool(a, w)
    \/ \E a \in ToolArguments["update_schema"], w \in PlainResults :
          outcome = "init" /\ update_schema_tool(a, w)
    \/ \E a \in ToolArguments["delete_schema"], w \in PlainResults :
          outcome = "init" /\ delete_schema_tool(a, w)
    \/ \E a \in ToolArguments["list_tables"], w \in PlainResults :
          outcome = "init" /\ list_tables_tool(a, w)
    \/ \E a \in TableKeyArgs, w \in PlainResults :
          outcome = "init" /\ get_table_tool(a, w)
    \/ \E a \in ToolArguments["create_table"], w \in PlainResults :
          outcome = "init" /\ create_table_tool(a, w)
    \/ \E a \in TableKeyArgs, w \in PlainResults :
          outcome = "init" /\ delete_table_tool(a, w)
    \/ \E a \in ToolArguments["create_context"], w \in ContextResults :
          outcome = "init" /\ create_context_tool(a, w)
    \/ \E a \in ToolArguments["execute_command_with_context"], w \in CommandResults :
          outcome = "init" /\ execute_command_with_context_tool(a, w)
    \/ \E a \in ToolArguments["destroy_context"], w \in PlainResults :
          outcome = "init" /\ destroy_context_tool(a, w)
    \/ \E a \in ToolArguments["databricks_command"], c \in ContextResults,
          w \in CommandResults \cup {Raise(<<"TimeoutError">>)} :
          outcome = "init"
              /\ databricks_command_tool(a, execute_databricks_command(c, w))

Spec == Init /\ [][Next]_vars

----------------------------------------------------------------------------
(* any invocation, followed by invocations of the same handler with the     *)
(* same arguments and one more key: a key no input model declares, or a     *)
(* field the arguments omit, supplied with the default the model declares    *)
(* for it (an enum default as its value)                                     *)

Again ==
    /\ outcome # "init"
    /\ arguments.t = "dict"
    /\ "extra_key" \notin DOMAIN arguments.v
    /\ \E a \in {PyDict(With(arguments.v, "extra_key", PyStr(<<"x">>)))}
              \cup {PyDict(With(arguments.v, f.name,
                                IF f.default.t = "enum" THEN PyStr(f.default.v)
                                ELSE f.default))
                    : f \in {g \in UNION {{HandlerModel[n].fields[i]
                                             : i \in DOMAIN HandlerModel[n].fields}
                                          : n \in DOMAIN HandlerModel \cap {tool}} :
                                /\ ~g.required
                                /\ g.default # PyNone
                                /\ g.name \notin DOMAIN arguments.v}} :
          \/ tool = "create_pipeline"
                /\ \E w \in PipelineResults : create_pipeline_tool(a, w)
          \/ tool = "get_pipeline"
                /\ \E w \in PipelineResults : get_pipeline_tool(a, w)
          \/ tool = "update_pipeline_config"
                /\ \E w \in PlainResults : update_pipeline_config_tool(a, w)
          \/ tool = "delete_pipeline"
                /\ \E w \in PlainResults : delete_pipeline_tool(a, w)
          \/ tool = "start_pipeline_update"
                /\ \E f \in StartFaults : start_pipeline_update_tool(a, f)
          \/ tool = "validate_pipeline"
                /\ \E f \in StartFaults : validate_pipeline_tool(a, f)
          \/ tool = "get_pipeline_update_status"
                /\ \E f \in PollFaults : get_pipeline_update_status_tool(a, f)
          \/ tool = "stop_pipeline"
                /\ \E w \in PlainResults : stop_pipeline_tool(a, w)
          \/ tool = "get_pipeline_events"
                /\ \E w \in EventResults : get_pipeline_events_tool(a, w)
          \/ tool = "list_pipeline_files"
                /\ \E w \in PlainResults : list_pipeline_files_tool(a, w)
          \/ tool = "get_pipeline_file_status"
                /\ \E w \in PlainResults : get_pipeline_file_status_tool(a, w)
          \/ tool = "read_pipeline_file"
                /\ \E w \in PlainResults : read_pipeline_file_tool(a, w)
          \/ tool = "write_pipeline_file"
                /\ \E w \in PlainResults : write_pipeline_file_tool(a, w)
          \/ tool = "create_pipeline_directory"
                /\ \E w \in PlainResults : create_pipeline_directory_tool(a, w)
          \/ tool = "delete_pipeline_path"
                /\ \E w \in PlainResults : delete_pipeline_path_tool(a, w)
          \/ tool = "list_catalogs"
                /\ \E w \in PlainResults : list_catalogs_tool(a, w)
          \/ tool = "get_catalog"
                /\ \E w \in PlainResults : get_catalog_tool(a, w)
          \/ tool = "list_schemas"
                /\ \E w \in PlainResults : list_schemas_tool(a, w)
          \/ tool = "get_schema"
                /\ \E w \in PlainResults : get_schema_tool(a, w)
          \/ tool = "create_schema"
                /\ \E w \in PlainResults : create_schema_tool(a, w)
          \/ tool = "update_schema"
                /\ \E w \in PlainResults : update_schema_tool(a, w)
          \/ tool = "delete_schema"
                /\ \E w \in PlainResults : delete_schema_tool(a, w)
          \/ tool = "list_tables"
                /\ \E w \in PlainResults : list_tables_tool(a, w)
          \/ tool = "get_table"
                /\ \E w \in PlainResults : get_table_tool(a, w)
          \/ tool = "create_table"
                /\ \E w \in PlainResults : create_table_tool(a, w)
          \/ tool = "delete_table"
                /\ \E w \in PlainResults : delete_table_tool(a, w)
          \/ tool = "create_context"
                /\ \E w \in ContextResults : create_context_tool(a, w)
          \/ tool = "execute_command_with_context"
                /\ \E w \in CommandResults : execute_command_with_context_tool(a, w)
          \/ tool = "destroy_context"
                /\ \E w \in PlainResults : destroy_context_tool(a, w)
          \/ tool = "databricks_command"
                /\ \E c \in ContextResults, w \in CommandResults :
                      databricks_command_tool(a, execute_databricks_command(c, w))

SpecUnknownKeys == Init /\ [][Next \/ Again]_vars

----------------------------------------------------------------------------
(* update_pipeline_config on one request: Init draws the request, the       *)
(* handler answers it once                                                  *)

UpdateConfigArgs ==
    {PyDict(m) : m \in ArgMaps(
        <<"pipeline_id", "name", "root_path", "catalog", "schema",
          "workspace_notebook_paths", "serverless">>,
        <<{P1},
          {Absent, PyNone, PyStr(<<>>), PyStr(<<" ">>), PyStr(<<"new">>)},
          {Absent, PyStr(<<>>), PyStr(<<"dbfs:/p">>)},
          {Absent, PyStr(<<>>), PyStr(<<"main">>)},
          {Absent, PyStr(<<"sales">>)},
          {Absent, PyList(<<>>), PyList(<<PyStr(<<"/nb">>)>>)},
          {Absent, PyNone, PyBool(TRUE), PyBool(FALSE)}>>)}

InitRequest(args) ==
    /\ tool = ""
    /\ arguments \in args
    /\ outcome = "init"
    /\ envelope = NoEnvelope
    /\ calls = <<>>
    /\ updates = <<>>
    /\ stopping = {}
    /\ polls = <<>>

InitUpdateConfig == InitRequest(UpdateConfigArgs)

NextUpdateConfig ==
    \E w \in PlainResults :
        outcome = "init" /\ update_pipeline_config_tool(arguments, w)

SpecUpdateConfig == InitUpdateConfig /\ [][NextUpdateConfig]_vars

----------------------------------------------------------------------------
(* start_pipeline_update and validate_pipeline on one request *)

StartArgs ==
    {PyDict(m) : m \in ArgMaps(
        <<"pipeline_id", "refresh_selection", "full_refresh",
          "full_refresh_selection", "validate_only">>,
        <<{P1},
          {Absent, PyNone, PyList(<<>>), PyList(<<PyStr(<<" ", "orders">>)>>)},
          {Absent, PyBool(TRUE), PyBool(FALSE), PyStr(<<"true">>)},
          {Absent, PyList(<<PyStr(<<"customers">>), PyStr(<<"orders">>)>>)},
          {Absent, PyBool(TRUE), PyBool(FALSE)}>>)}

InitStart == InitRequest(StartArgs)

NextStart ==
    \/ \E f \in StartFaults :
          outcome = "init" /\ start_pipeline_update_tool(arguments, f)
    \/ \E f \in StartFaults :
          outcome = "init" /\ validate_pipeline_tool(arguments, f)

SpecStart == InitStart /\ [][NextStart]_vars

----------------------------------------------------------------------------
(* the update lifecycle: the handlers that start, poll and stop updates,    *)
(* interleaved with the remote platform's transitions                       *)

LifecycleStartArgs ==
    {PyDict(EmptyMap), PyDict([k \in {"pipeline_id"} |-> P1])}

LifecyclePollArgs ==
    {PyDict([k \in {"pipeline_id"} |-> P1])}
    \cup {PyDict([k \in {"pipeline_id", "update_id"} |->
                    IF k = "pipeline_id" THEN P1 ELSE UpdateIdName(i)])
             : i \in 1..MaxUpdates}

LifecycleStopArgs ==
    {PyDict(EmptyMap), PyDict([k \in {"pipeline_id"} |-> P1])}

NextLifecycle ==
    \/ \E a \in LifecycleStartArgs, f \in StartFaults :
          start_pipeline_update_tool(a, f)
    \/ \E a \in LifecycleStartArgs, f \in StartFaults :
          validate_pipeline_tool(a, f)
    \/ \E a \in LifecyclePollArgs, f \in {"none", "raise"} :
          get_pipeline_update_status_tool(a, f)
    \/ \E a \in LifecycleStopArgs, w \in PlainResults :
          stop_pipeline_tool(a, w)
    \/ \E i \in 1..MaxUpdates : RemoteRun(i)
    \/ \E i \in 1..MaxUpdates, state \in {"COMPLETED", "FAILED"} :
          RemoteFinish(i, state)
    \/ \E i \in 1..MaxUpdates : RemoteCancel(i)

InitLifecycle ==
    /\ tool = ""
    /\ arguments = PyNone
    /\ outcome = "init"
    /\ envelope = NoEnvelope
    /\ calls = <<>>
    /\ updates = <<>>
    /\ stopping = {}
    /\ polls = <<>>

SpecLifecycle == InitLifecycle /\ [][NextLifecycle]_vars

----------------------------------------------------------------------------
(* polling one pipeline: updates are started, polled and stopped while the  *)
(* remote platform moves them on; a poll may also get a response without    *)
(* update info. The platform acts on a pending stop request eventually.     *)

NextPolling ==
    \/ \E a \in LifecycleStartArgs, f \in StartFaults :
          start_pipeline_update_tool(a, f)
    \/ \E a \in LifecyclePollArgs, f \in PollFaults :
          get_pipeline_update_status_tool(a, f)
    \/ \E a \in LifecycleStopArgs, w \in PlainResults :
          stop_pipeline_tool(a, w)
    \/ \E i \in 1..MaxUpdates : RemoteRun(i)
    \/ \E i \in 1..MaxUpdates, state \in {"COMPLETED", "FAILED"} :
          RemoteFinish(i, state)
    \/ \E i \in 1..MaxUpdates : RemoteCancel(i)

SpecPolling ==
    /\ InitLifecycle
    /\ [][NextPolling]_vars
    /\ WF_vars(\E i \in 1..MaxUpdates : RemoteCancel(i))

----------------------------------------------------------------------------
(* the claims *)


\* the "required" list the published inputSchema gives the handlers that
\* construct no input model
SchemaRequired ==
    [n \in {"get_schema", "get_table", "delete_table"} |->
        IF n = "get_schema" THEN {"full_schema_name"} ELSE {"full_table_name"}]

\* the last invocation's arguments violate the tool's input requirements
ViolatesRequirements ==
    IF tool \in DOMAIN HandlerModel
    THEN Construct(HandlerModel[tool], arguments).kind # "ok"
    ELSE /\ tool \in DOMAIN SchemaRequired
         /\ \/ arguments.t # "dict"
            \/ ~(SchemaRequired[tool] \subseteq DOMAIN arguments.v)

IsError(env) == "isError" \in DOMAIN env /\ env.isError = TRUE

\* an envelope is {content: [{type: "text", text: ...}]} with an optional
\* isError that is true when present
WellFormed(env) ==
    /\ DOMAIN env \in {{"content"}, {"content", "isError"}}
    /\ Len(env.content) = 1
    /\ DOMAIN env.content[1] = {"type", "text"}
    /\ env.content[1].type = "text"
    /\ "isError" \in DOMAIN env => env.isError = TRUE

\* the last invocation made a collaborator call and the call returned
CollaboratorReturned == calls # <<>> /\ ~calls[Len(calls)].result.raise

\* the last invocation failed: its input was rejected before any collaborator
\* call, the collaborator call raised, or a compute result has success = false
InvocationFailed ==
    \/ calls = <<>>
    \/ calls[Len(calls)].result.raise
    \/ /\ tool \in {"execute_command_with_context", "databricks_command"}
       /\ ~calls[Len(calls)].result.value.success

\* C1: for every tool handler and every invocation that returns, the envelope
\* has isError = true exactly when the invocation failed (input rejected,
\* collaborator call raised, or compute result with success = false), and an
\* envelope returned after a successful collaborator call has no isError key.
C1_IsErrorIffFailed ==
    outcome = "returned" =>
        /\ IsError(envelope) <=> InvocationFailed
        /\ ViolatesRequirements /\ tool \in DOMAIN HandlerModel => IsError(envelope)
        /\ ~InvocationFailed => "isError" \notin DOMAIN envelope

\* a one-off command whose execution reported success = false returned an
\* envelope flagged isError
C1_Witness ==
    /\ outcome = "returned"
    /\ tool = "databricks_command"
    /\ CollaboratorReturned
    /\ ~calls[1].result.value.success
    /\ IsError(envelope)

\* C2 (as claimed): every invocation returns a well-formed envelope and no
\* exception escapes a handler, for every arguments value including null.
C2_NeverRaises ==
    outcome # "init" => outcome = "returned" /\ WellFormed(envelope)

\* C3 (as claimed): when the arguments violate the tool's input requirements,
\* including a missing field the published schema requires, the handler
\* makes no collaborator call.
C3_RejectedBeforeCall ==
    outcome # "init" /\ ViolatesRequirements => calls = <<>>

\* the last invocation reached the remote update call
UpdateCalled ==
    /\ tool = "update_pipeline_config"
    /\ calls # <<>>
    /\ calls[1].op = "pipelines.update"

\* the fields of the request that carry a value (a key bound to null supplies
\* nothing)
Supplied == {k \in DOMAIN arguments.v : arguments.v[k] # PyNone}

\* the keyword of the remote update call that carries a request field
SentAs(k) ==
    CASE k = "name" -> "name"
      [] k = "root_path" -> "storage"
      [] k = "workspace_notebook_paths" -> "libraries"
      [] k = "serverless" -> "serverless"
      [] OTHER -> "target"

\* C4: the remote update call carries no field outside pipeline_id and the
\* fields the request supplies; target counts as supplied only when catalog
\* and schema both are.
C4_OnlySuppliedSent ==
    UpdateCalled =>
        DOMAIN calls[1].kwargs \subseteq
            {"pipeline_id"}
            \cup {SentAs(k) : k \in Supplied \cap {"name", "root_path",
                                   "workspace_notebook_paths", "serverless"}}
            \cup (IF {"catalog", "schema"} \subseteq Supplied THEN {"target"} ELSE {})

\* update(pid, {name: "new"}) sent exactly pipeline_id and name
C4_Witness ==
    /\ UpdateCalled
    /\ DOMAIN arguments.v = {"pipeline_id", "name"}
    /\ arguments.v["name"] = PyStr(<<"new">>)
    /\ calls[1].kwargs = [pipeline_id |-> P1, name |-> PyStr(<<"new">>)]

\* C5 (as claimed): name, root_path, workspace_notebook_paths and serverless
\* are sent to the remote update call whenever the request supplies them,
\* whatever the value (empty string, empty list, false).
C5_SuppliedOverwrites ==
    UpdateCalled =>
        \A k \in Supplied \cap {"name", "root_path", "workspace_notebook_paths",
                                "serverless"} :
            SentAs(k) \in DOMAIN calls[1].kwargs

\* C6 (as claimed): a request supplying exactly one of catalog and schema is
\* answered with isError = true, and target is sent only when both are
\* supplied.
C6_LoneTargetPartRejected ==
    tool = "update_pipeline_config" /\ outcome = "returned" =>
        /\ Cardinality(Supplied \cap {"catalog", "schema"}) = 1 => IsError(envelope)
        /\ UpdateCalled /\ "target" \in DOMAIN calls[1].kwargs =>
               {"catalog", "schema"} \subseteq Supplied

\* the command the last invocation's handler validated
Command == Construct(HandlerModel[tool], arguments).cmd

\* C7: every start_pipeline_update request reaches the collaborator with
\* validate_only = false and every validate_pipeline request with
\* validate_only = true, whatever the arguments hold (a validate_only key
\* included), and the three refresh fields arrive as validated.
C7_DryRunFlagDistinct ==
    tool \in {"start_pipeline_update", "validate_pipeline"} /\ calls # <<>> =>
        /\ calls[1].op = "pipelines.start_update"
        /\ calls[1].kwargs.validate_only = PyBool(tool = "validate_pipeline")
        /\ \A k \in {"refresh_selection", "full_refresh", "full_refresh_selection"} :
               calls[1].kwargs[k] = Command[k]

\* a validate_pipeline request carrying validate_only = false reached the
\* collaborator as a dry run
C7_Witness ==
    /\ tool = "validate_pipeline"
    /\ calls # <<>>
    /\ "validate_only" \in DOMAIN arguments.v
    /\ arguments.v["validate_only"] = PyBool(FALSE)
    /\ calls[1].kwargs.validate_only = PyBool(TRUE)
    /\ calls[1].kwargs.full_refresh = PyBool(TRUE)

\* the last invocation was a status poll that reported an update
Polled ==
    /\ tool = "get_pipeline_update_status"
    /\ outcome = "returned"
    /\ ~IsError(envelope)
    /\ envelope.content[1].text.full.update # PyNone

\* the words the status handler chooses itself: marker, title and state line
Wording(text) == <<text.emoji, text.title, text.state>>

\* C8 (as claimed): a status poll that observes COMPLETED for an update
\* started with validate_only = true reports it in wording distinct from the
\* report of a COMPLETED update started as a normal refresh.
C8_DryRunCompletionWording ==
    LET text == envelope.content[1].text
        normal == [update |-> [text.full.update EXCEPT !.validate_only = FALSE]]
    IN Polled /\ text.state = "COMPLETED" /\ text.full.update.validate_only =>
           Wording(text) # Wording(StatusText(Command, normal))

\* C9: start_pipeline_update and validate_pipeline make exactly one
\* collaborator call, start_update, once the input validates, never call
\* get_update, and hand back the update_id that call returned.
C9_StartReturnsImmediately ==
    tool \in {"start_pipeline_update", "validate_pipeline"}
        /\ outcome = "returned" /\ ~ViolatesRequirements =>
        /\ Len(calls) = 1
        /\ calls[1].op = "pipelines.start_update"
        /\ ~IsError(envelope) =>
               envelope.content[1].text.update_id = calls[1].result.value

\* a start handler returned an update_id while that update is still QUEUED
C9_Witness ==
    /\ tool \in {"start_pipeline_update", "validate_pipeline"}
    /\ outcome = "returned"
    /\ ~IsError(envelope)
    /\ \E i \in 1..Len(updates) :
          /\ updates[i].update_id = envelope.content[1].text.update_id
          /\ updates[i].state = "QUEUED"

\* C10: every status poll whose input validates issues exactly one get_update
\* call and reports the state the remote platform holds at that call, never
\* the state an earlier poll saw.
C10_PollReportsRemoteState ==
    /\ tool = "get_pipeline_update_status" /\ outcome = "returned"
           /\ ~ViolatesRequirements =>
           Len(calls) = 1 /\ calls[1].op = "pipelines.get_update"
    /\ \A i \in 1..Len(polls) :
           polls[i].reported \notin {"none", "unknown"} =>
               polls[i].reported = polls[i].remote

\* two polls of one update, separated by a remote transition, reported
\* different states, the later one RUNNING
C10_Witness ==
    \E i \in 1..Len(polls) :
        polls[i].changed /\ polls[i].reported = "RUNNING"

\* position of a state in QUEUED -> RUNNING -> {COMPLETED | FAILED | CANCELED}
Rank(state) ==
    CASE state = "QUEUED" -> 0 [] state = "RUNNING" -> 1 [] OTHER -> 2

\* C11: for each update, a status poll never reports a state that lies before
\* the state the previous poll of that update reported, and once a poll has
\* reported a terminal state every later poll that reports a state reports
\* that same one, whatever start, stop, poll and remote steps come between.
C11_PollsMonotone ==
    [][\A i \in 1..Len(polls) :
          polls[i].reported \in UpdateStates /\ polls'[i].reported \in UpdateStates =>
              /\ Rank(polls[i].reported) <= Rank(polls'[i].reported)
              /\ polls[i].reported \in Terminal =>
                     polls'[i].reported = polls[i].reported]_vars

\* successive polls of one update reported different states, the later one
\* the terminal state CANCELED
C11_Witness ==
    /\ tool = "get_pipeline_update_status"
    /\ \E i \in 1..Len(polls) :
          polls[i].reported = "CANCELED" /\ polls[i].changed

\* the last invocation was a stop request that passed validation
StopRequested ==
    tool = "stop_pipeline" /\ outcome = "returned" /\ ~ViolatesRequirements

\* C12: a valid stop_pipeline request makes exactly one call, pipelines.stop,
\* and its answer names no update state; an update that is not terminal while
\* a stop of its pipeline is pending eventually becomes CANCELED, given that
\* the remote platform acts on the stop request.
C12_StopIsAsynchronous ==
    /\ [](StopRequested =>
             /\ Len(calls) = 1
             /\ calls[1].op = "pipelines.stop"
             /\ "state" \notin DOMAIN envelope.content[1].text)
    /\ \A i \in 1..MaxUpdates :
           (i <= Len(updates) /\ Stopping(i) /\ updates[i].state \notin Terminal)
               ~> (i <= Len(updates) /\ updates[i].state = "CANCELED")

\* after the stop request returned, a status poll still reported RUNNING
C12_Witness ==
    /\ tool = "get_pipeline_update_status"
    /\ \E i \in 1..Len(polls) :
          /\ Stopping(i)
          /\ updates[i].state = "RUNNING"
          /\ polls[i].reported = "RUNNING"
          /\ envelope = TextResponse(StatusText(Command, [update |-> updates[i]]))

\* C13: the status handler shows each of QUEUED, RUNNING, COMPLETED, FAILED and
\* CANCELED with a marker of its own, shows every other state the remote
\* platform returns with the 'unrecognized' marker, and copies the returned
\* state into the State line unchanged.
C13_StateMarkers ==
    LET text == envelope.content[1].text
    IN Polled =>
           /\ text.state = calls[1].result.value.update.state
           /\ text.emoji = "question" <=> text.state \notin UpdateStates
           /\ \A s \in UpdateStates \ {text.state} : text.emoji # StateEmoji(s)

\* a poll of an update in a state the handler does not name showed that state
\* with the 'unrecognized' marker
C13_Witness ==
    /\ Polled
    /\ envelope.content[1].text.state = "WAITING_FOR_RESOURCES"
    /\ envelope.content[1].text.emoji = "question"

\* the last invocation listed the events of a pipeline
EventsListed ==
    tool = "get_pipeline_events" /\ outcome = "returned" /\ ~IsError(envelope)

\* C14 (as claimed): get_pipeline_events with a valid max_results = n reports at
\* most n events, however many events the remote listing yields.
C14_AtMostMaxResults ==
    EventsListed =>
        envelope.content[1].text.event_count <= Command["max_results"].v

\* C15: the events handler reports total = the number of events listed and
\* errorCount = the number of those whose event_type is present and ends in
\* '_failed', whatever their level, so 0 <= errorCount <= total; the events it
\* hands back are the listed ones, unchanged; flow_failed, flow_progress,
\* update_failed give total 3 and errorCount 2.
C15_CountsFailedSuffix ==
    LET text == envelope.content[1].text
        events == calls[1].result.value
        failed == {i \in 1..Len(events) :
                      /\ events[i].event_type # PyNone
                      /\ events[i].event_type.v # <<>>
                      /\ events[i].event_type.v[Len(events[i].event_type.v)] = "_failed"}
    IN EventsListed =>
           /\ text.event_count = Len(events)
           /\ text.error_count = Cardinality(failed)
           /\ 0 <= text.error_count /\ text.error_count <= text.event_count
           /\ text.events = events
           /\ Len(events) = 3 => text.event_count = 3 /\ text.error_count = 2

\* the events flow_failed, flow_progress, update_failed were counted
C15_Witness ==
    /\ EventsListed
    /\ Len(calls[1].result.value) = 3
    /\ calls[1].result.value[2].event_type = PyStr(<<"flow", "_progress">>)
    /\ envelope.content[1].text.error_count = 2

\* the steps the last one-off command took on the cluster
CommandSteps == IF calls = <<>> THEN <<>> ELSE calls[1].result.steps

CrossFieldRuleBroken ==
    LET given(k) == k \in DOMAIN arguments.v /\ Truthy(arguments.v[k])
    IN /\ arguments.t = "dict"
       /\ \/ /\ tool = "create_table"
             /\ "table_type" \in DOMAIN arguments.v
             /\ arguments.v["table_type"] = PyStr(<<"EXTERNAL">>)
             /\ ~given("storage_location")
          \/ /\ tool = "update_schema"
             /\ ~given("new_name")
             /\ ~given("comment")

\* the arguments of the last invocation break a single-field constraint
FieldConstraintBroken ==
    /\ arguments.t = "dict"
    /\ FieldErrors(HandlerModel[tool].fields, arguments.v, 1) # <<>>

\* C17 (as claimed): arguments that break both a single-field constraint and
\* the cross-field rule are answered with a validation error that lists the
\* single-field violation and the cross-field violation together.
C17_AllViolationsListed ==
    LET listed == envelope.content[1].text.error_msgs
    IN outcome = "returned" /\ CrossFieldRuleBroken /\ FieldConstraintBroken =>
           /\ IsError(envelope)
           /\ \E i \in 1..Len(listed) : listed[i].type = "value_error"
           /\ \E i \in 1..Len(listed) : listed[i].type # "value_error"

\* the required fields of the last invocation's input contract that its
\* arguments leave out while supplying every other field validly
OmittedRequired ==
    LET model == HandlerModel[tool]
    IN {model.fields[i].name : i \in
           {j \in DOMAIN model.fields :
               /\ model.fields[j].required
               /\ arguments = PyDict(Without(FullArgs(model), model.fields[j].name))}}

\* C18: for every input contract and every required field f of it, arguments
\* that are valid except for leaving f out are answered with isError = true
\* and a list of violations that names f and no other field.
C18_MissingFieldNamed ==
    LET text == envelope.content[1].text
    IN tool \in DOMAIN HandlerModel /\ outcome # "init" =>
           \A f \in OmittedRequired :
               /\ outcome = "returned"
               /\ IsError(envelope)
               /\ calls = <<>>
               /\ "error_msgs" \in DOMAIN text
               /\ Len(text.error_msgs) >= 1
               /\ \A i \in 1..Len(text.error_msgs) : text.error_msgs[i].field = <<f>>

\* create_table arguments without table_name were rejected
C18_Witness ==
    /\ tool = "create_table"
    /\ outcome = "returned"
    /\ OmittedRequired = {"table_name"}
    /\ IsError(envelope)

\* the step invokes the last handler again with the arguments of the last
\* invocation plus keys its input contract does not declare, and the
\* collaborator answers the call of either invocation alike
RepeatedWithUnknownKeys ==
    /\ outcome # "init"
    /\ tool' = tool
    /\ arguments.t = "dict" /\ arguments'.t = "dict"
    /\ DOMAIN arguments.v \subseteq DOMAIN arguments'.v
    /\ DOMAIN arguments'.v # DOMAIN arguments.v
    /\ tool \in DOMAIN HandlerModel =>
           (DOMAIN arguments'.v \ DOMAIN arguments.v)
               \cap FieldNames(HandlerModel[tool].fields) = {}
    /\ \A k \in DOMAIN arguments.v : arguments'.v[k] = arguments.v[k]
    /\ calls # <<>> /\ calls' # <<>> => calls'[1].result = calls[1].result

\* C19: adding keys that are not fields of the tool's input contract to the
\* arguments changes neither whether the input is accepted, nor the
\* collaborator call made, nor the envelope returned.
C19_UnknownKeysIgnored ==
    [][RepeatedWithUnknownKeys =>
          /\ outcome' = outcome
          /\ calls' = calls
          /\ envelope' = envelope]_vars

\* a create_table request carrying an undeclared key reached the collaborator
\* and was answered without error
C19_Witness ==
    /\ tool = "create_table"
    /\ outcome = "returned"
    /\ arguments.t = "dict"
    /\ "extra_key" \in DOMAIN arguments.v
    /\ calls # <<>>
    /\ ~IsError(envelope)

\* the required string fields of the invoked handler's model that the
\* arguments supply as an empty or whitespace-only string
BlankRequired ==
    IF tool \in DOMAIN HandlerModel /\ outcome # "init" /\ arguments.t = "dict"
    THEN {i \in DOMAIN HandlerModel[tool].fields :
             LET f == HandlerModel[tool].fields[i]
             IN /\ f.required
                /\ f.ty = "str"
                /\ f.name \in DOMAIN arguments.v
                /\ arguments.v[f.name].t = "str"
                /\ Strip(arguments.v[f.name].v) = <<>>}
    ELSE {}

\* C20: arguments that supply a required string field as an empty or
\* whitespace-only string are rejected by validation: the handler answers with
\* isError and makes no collaborator call.
C20_BlankRequiredRejected ==
    BlankRequired # {} =>
        /\ outcome = "returned"
        /\ IsError(envelope)
        /\ calls = <<>>

\* the bounded integer field of the invoked handler's model and its bounds
BoundedField ==
    CASE tool = "databricks_command" -> [name |-> "timeout", lo |-> 1, hi |-> 3600]
      [] tool = "get_pipeline_events" -> [name |-> "max_results", lo |-> 1, hi |-> 1000]
      [] OTHER -> [name |-> "", lo |-> 0, hi |-> 0]

\* the last invocation supplied its bounded field as an integer, in arguments
\* that are acceptable without it
BoundedSupplied ==
    /\ tool \in {"databricks_command", "get_pipeline_events"}
    /\ outcome # "init"
    /\ arguments.t = "dict"
    /\ BoundedField.name \in DOMAIN arguments.v
    /\ arguments.v[BoundedField.name].t = "int"
    /\ Validate(HandlerModel[tool], Without(arguments.v, BoundedField.name)).ok

\* C21: databricks_command accepts an integer timeout exactly when
\* 1 <= timeout <= 3600 and get_pipeline_events an integer max_results exactly
\* when 1 <= max_results <= 1000: a value outside the range is answered with a
\* validation error envelope naming the field and no collaborator call is
\* made; a value inside the range, both bounds included, reaches the
\* collaborator unchanged.
C21_BoundsEnforced ==
    LET given == arguments.v[BoundedField.name].v
        text == envelope.content[1].text
    IN BoundedSupplied =>
           IF BoundedField.lo <= given /\ given <= BoundedField.hi
           THEN /\ Len(calls) = 1
                /\ Command[BoundedField.name] = PyInt(given)
                /\ tool = "databricks_command" => calls[1].kwargs[4] = PyInt(given)
                /\ tool = "get_pipeline_events" =>
                       calls[1].kwargs.max_results = PyInt(given)
           ELSE /\ outcome = "returned"
                /\ IsError(envelope)
                /\ calls = <<>>
                /\ "error_msgs" \in DOMAIN text
                /\ \E i \in 1..Len(text.error_msgs) :
                       text.error_msgs[i].field = <<BoundedField.name>>

\* a one-off command with timeout = 3600, the upper bound, reached the
\* collaborator
C21_Witness ==
    /\ BoundedSupplied
    /\ tool = "databricks_command"
    /\ arguments.v["timeout"] = PyInt(3600)
    /\ Len(calls) = 1
    /\ calls[1].kwargs[4] = PyInt(3600)

\* the last invocation asked update_schema for an update that supplies
\* neither new_name nor comment
NothingToUpdate ==
    /\ tool = "update_schema"
    /\ outcome # "init"
    /\ arguments.t = "dict"
    /\ "new_name" \notin DOMAIN arguments.v
    /\ "comment" \notin DOMAIN arguments.v

\* C22: every update_schema argument mapping in which new_name and comment
\* are both absent is rejected with the cross-field 'at least one of new_name
\* or comment' violation and no collaborator call is made.
C22_AtLeastOneUpdate ==
    LET text == envelope.content[1].text
    IN NothingToUpdate =>
           /\ outcome = "returned"
           /\ IsError(envelope)
           /\ calls = <<>>
           /\ "error_msgs" \in DOMAIN text
           /\ \E i \in 1..Len(text.error_msgs) :
                  /\ text.error_msgs[i].type = "value_error"
                  /\ text.error_msgs[i].msg =
                         "At least one of 'new_name' or 'comment' must be provided"

\* the last invocation asked create_table for a table of a supplied or
\* defaulted table_type, in arguments that are acceptable without table_type
\* and storage_location
TableTypeSupplied ==
    /\ tool = "create_table"
    /\ outcome # "init"
    /\ arguments.t = "dict"
    /\ "table_type" \in DOMAIN arguments.v =>
           /\ arguments.v["table_type"].t = "str"
           /\ arguments.v["table_type"].v \in TableTypeEnum
    /\ "storage_location" \in DOMAIN arguments.v =>
           arguments.v["storage_location"].t \in {"str", "none"}
    /\ Validate(CreateTableInput,
                Without(Without(arguments.v, "table_type"), "storage_location")).ok
    /\ ~ColumnsToSdk(Validate(CreateTableInput, arguments.v).cmd["columns"]).raise

\* C23: a create_table input with table_type = EXTERNAL is rejected by
\* validation, with no collaborator call, when storage_location is omitted
\* (or null, or blank) and accepted when a storage_location is given; a
\* MANAGED or defaulted table_type is accepted with or without
\* storage_location. An accepted input reaches the collaborator with the
\* table_type and storage_location it validated to.
C23_ExternalNeedsStorage ==
    LET given == arguments.v
        text == envelope.content[1].text
        external == /\ "table_type" \in DOMAIN given
                    /\ given["table_type"].v = <<"EXTERNAL">>
        located == /\ "storage_location" \in DOMAIN given
                   /\ given["storage_location"].t = "str"
                   /\ Strip(given["storage_location"].v) # <<>>
    IN TableTypeSupplied =>
           IF external /\ ~located
           THEN /\ outcome = "returned"
                /\ IsError(envelope)
                /\ calls = <<>>
                /\ "error_msgs" \in DOMAIN text
                /\ \E i \in 1..Len(text.error_msgs) :
                       text.error_msgs[i].msg =
                           "storage_location is required for EXTERNAL tables"
           ELSE /\ Len(calls) = 1
                /\ calls[1].op = "tables.create_table"
                /\ calls[1].kwargs[5] =
                       PyStr(IF external THEN <<"EXTERNAL">> ELSE <<"MANAGED">>)
                /\ calls[1].kwargs[7] =
                       IF located THEN PyStr(Strip(given["storage_location"].v))
                       ELSE IF "storage_location" \in DOMAIN given
                                /\ given["storage_location"].t = "str"
                       THEN PyStr(<<>>)
                       ELSE PyNone

\* an EXTERNAL table without storage_location was rejected
C23_Witness ==
    /\ TableTypeSupplied
    /\ "table_type" \in DOMAIN arguments.v
    /\ arguments.v["table_type"].v = <<"EXTERNAL">>
    /\ "storage_location" \notin DOMAIN arguments.v
    /\ outcome = "returned"
    /\ IsError(envelope)
    /\ calls = <<>>

\* the published definition of the invoked tool
Definition == ToolDefinitions[CHOOSE i \in DOMAIN ToolDefinitions :
                                 ToolDefinitions[i].name = tool]

\* the last invocation's arguments satisfy the published inputSchema of the
\* tool: a mapping that holds every required property, each declared property
\* it holds being of the declared type
SatisfiesSchema ==
    /\ arguments.t = "dict"
    /\ Definition.required \subseteq DOMAIN arguments.v
    /\ \A k \in DOMAIN arguments.v \cap DOMAIN Definition.properties :
           arguments.v[k].t =
               CASE Definition.properties[k] = "string" -> "str"
                 [] Definition.properties[k] = "boolean" -> "bool"
                 [] Definition.properties[k] = "integer" -> "int"
                 [] OTHER -> "list"

\* C24: for every tool whose handler validates against an input model, the
\* inputSchema's property names, required set and defaults equal the
\* model's field names, required fields and defaults, and arguments that
\* satisfy the published inputSchema are accepted by the validation.
C24_SchemaMatchesContract ==
    LET fields == HandlerModel[tool].fields
        defaulted == {i \in DOMAIN fields :
                         ~fields[i].required /\ fields[i].default # PyNone}
    IN tool \in DOMAIN HandlerModel /\ outcome # "init" =>
           /\ DOMAIN Definition.properties = FieldNames(fields)
           /\ Definition.required =
                  {fields[i].name : i \in {j \in DOMAIN fields : fields[j].required}}
           /\ DOMAIN Definition.defaults = {fields[i].name : i \in defaulted}
           /\ \A i \in defaulted :
                  Definition.defaults[fields[i].name].v = fields[i].default.v
           /\ SatisfiesSchema => Construct(HandlerModel[tool], arguments).kind = "ok"

\* the names with a handler, over the three modules, and the names with a
\* definition, each as often as it is written
HandlerNames == TOOL_HANDLERS[1] \o TOOL_HANDLERS[2] \o TOOL_HANDLERS[3]
DefinitionNames == [i \in DOMAIN ToolDefinitions |-> ToolDefinitions[i].name]

\* how often name n occurs in the sequence names
Occurrences(names, n) == Cardinality({i \in DOMAIN names : names[i] = n})

\* C25: no tool name occurs in more than one TOOL_HANDLERS map or more than
\* once in the definitions, every name with a handler has exactly one
\* definition and every definition exactly one handler; the name of every
\* invocation resolves to exactly one handler and one definition.
C25_ToolNamesUnique ==
    /\ \A i \in DOMAIN HandlerNames :
           /\ Occurrences(HandlerNames, HandlerNames[i]) = 1
           /\ Occurrences(DefinitionNames, HandlerNames[i]) = 1
    /\ \A i \in DOMAIN DefinitionNames :
           /\ Occurrences(DefinitionNames, DefinitionNames[i]) = 1
           /\ Occurrences(HandlerNames, DefinitionNames[i]) = 1
    /\ outcome # "init" =>
           /\ Occurrences(HandlerNames, tool) = 1
           /\ Occurrences(DefinitionNames, tool) = 1

\* get_table, a name of the unity_catalog module, was resolved and its handler
\* made its collaborator call
C25_Witness ==
    /\ tool = "get_table"
    /\ outcome = "returned"
    /\ calls # <<>>
    /\ Occurrences(HandlerNames, tool) = 1
    /\ Occurrences(DefinitionNames, tool) = 1

\* the last invocation asked create_pipeline with arguments its model accepts
PipelineAccepted ==
    /\ tool = "create_pipeline"
    /\ outcome # "init"
    /\ Construct(CreatePipelineInput, arguments).kind = "ok"

\* C26: for every create_pipeline argument mapping the model accepts, a
\* continuous key included, the one remote call is pipelines.create with
\* continuous = false, target = catalog.schema, one notebook library per
\* supplied path in the supplied order, and serverless as supplied, or true
\* when omitted.
C26_AlwaysTriggered ==
    LET given == arguments.v
        sent == calls[1].kwargs
        paths == given["workspace_notebook_paths"].v
    IN PipelineAccepted =>
           /\ Len(calls) = 1
           /\ calls[1].op = "pipelines.create"
           /\ sent.continuous = PyBool(FALSE)
           /\ sent.target = PyStr(Strip(given["catalog"].v) \o <<".">>
                                  \o Strip(given["schema"].v))
           /\ Len(sent.libraries.v) = Len(paths)
           /\ \A i \in 1..Len(paths) :
                  sent.libraries.v[i] =
                      PyDict([k \in {"notebook"} |-> PyStr(Strip(paths[i].v))])
           /\ "serverless" \notin DOMAIN given => sent.serverless = PyBool(TRUE)
           /\ "serverless" \in DOMAIN given /\ given["serverless"].t = "bool" =>
                  sent.serverless = given["serverless"]

\* arguments carrying continuous = true were accepted and submitted in
\* triggered mode
C26_Witness ==
    /\ PipelineAccepted
    /\ "continuous" \in DOMAIN arguments.v
    /\ arguments.v["continuous"] = PyBool(TRUE)
    /\ Len(calls) = 1
    /\ calls[1].kwargs.continuous = PyBool(FALSE)

\* the last invocation was of a handler of the pipelines module and a
\* collaborator call it made raised
PipelineCallFailed ==
    /\ tool \in {TOOL_HANDLERS[1][i] : i \in DOMAIN TOOL_HANDLERS[1]}
    /\ outcome # "init"
    /\ \E i \in DOMAIN calls : calls[i].result.raise

\* C27: when the remote call of a pipeline tool handler raises, the handler
\* makes no further collaborator call and returns an envelope with isError =
\* true whose text is the handler's error prefix followed by the failure's
\* message, unaltered, and carries none of the success text; delete_pipeline
\* answers 'Error deleting pipeline: <message>'.
C27_FailureSurfacedOnce ==
    LET text == envelope.content[1].text
    IN PipelineCallFailed =>
           /\ Len(calls) = 1
           /\ outcome = "returned"
           /\ IsError(envelope)
           /\ DOMAIN text = {"title", "error"}
           /\ text.error = calls[1].result.msg
           /\ tool = "delete_pipeline" => text.title = "Error deleting pipeline"

\* a delete whose remote call was refused was answered with the refusal
C27_Witness ==
    /\ PipelineCallFailed
    /\ tool = "delete_pipeline"
    /\ calls[1].op = "pipelines.delete"
    /\ calls[1].result.msg = <<"PERMISSION_DENIED">>
    /\ IsError(envelope)
    /\ envelope.content[1].text.error = <<"PERMISSION_DENIED">>

\* the last invocation's arguments were accepted by the handler's model
Accepted ==
    /\ tool \in DOMAIN HandlerModel
    /\ outcome # "init"
    /\ Construct(HandlerModel[tool], arguments).kind = "ok"

\* a == b for two values: a str-based enum member equals its value
PyEq(a, b) == a.v = b.v /\ (a.t = b.t \/ {a.t, b.t} = {"str", "enum"})

RepeatedWithDefault ==
    /\ outcome # "init"
    /\ tool' = tool
    /\ tool \in DOMAIN HandlerModel
    /\ arguments.t = "dict" /\ arguments'.t = "dict"
    /\ \E i \in DOMAIN HandlerModel[tool].fields :
           LET f == HandlerModel[tool].fields[i]
           IN /\ f.name \in {"serverless", "full_refresh", "max_results",
                             "timeout", "language", "table_type"}
              /\ ~f.required
              /\ f.name \notin DOMAIN arguments.v
              /\ arguments'.v = With(arguments.v, f.name,
                                     IF f.default.t = "enum" THEN PyStr(f.default.v)
                                     ELSE f.default)
    /\ calls # <<>> /\ calls' # <<>> => calls'[1].result = calls[1].result

\* the envelope as the caller reads it under a runtime: the language a
\* create_context answer names, formatted
AsRead(env, runtime) ==
    IF /\ tool = "create_context"
       /\ "content" \in DOMAIN env
       /\ "language" \in DOMAIN env.content[1].text
    THEN [env EXCEPT !.content[1].text.language = FormatLanguage(@, runtime)]
    ELSE env

\* C29: a request that omits serverless, full_refresh, max_results, timeout,
\* language or table_type and the same request supplying the default value
\* (true, false, 100, 120, 'python', 'MANAGED') have the same outcome, make
\* the same collaborator calls with equal arguments, and return the same
\* envelope text, on every runtime.
C29_DefaultsIndistinguishable ==
    [][RepeatedWithDefault =>
          /\ outcome' = outcome
          /\ Len(calls') = Len(calls)
          /\ \A i \in DOMAIN calls :
                 /\ calls'[i].op = calls[i].op
                 /\ DOMAIN calls'[i].kwargs = DOMAIN calls[i].kwargs
                 /\ \A k \in DOMAIN calls[i].kwargs :
                        PyEq(calls'[i].kwargs[k], calls[i].kwargs[k])
          /\ \A runtime \in {"format_value", "format_member"} :
                 AsRead(envelope', runtime) = AsRead(envelope, runtime)]_vars

\* C30: every validated field of the schema contracts reaches the
\* collaborator: an accepted update_schema request is forwarded with the
\* full schema name, new_name and comment it validated to, and an accepted
\* delete_schema request with the full schema name and, when force = true,
\* the force value, so that force = true and force = false give different
\* delete calls.
C30_ForceForwarded ==
    LET sent == calls[1].kwargs
        name == Dotted(Command["catalog_name"], Command["schema_name"])
    IN Accepted /\ tool \in {"update_schema", "delete_schema"} =>
           /\ Len(calls) = 1
           /\ sent[1] = name
           /\ tool = "update_schema" =>
                  sent[2] = Command["new_name"] /\ sent[3] = Command["comment"]
           /\ tool = "delete_schema" /\ Command["force"] = PyBool(TRUE) =>
                  \E k \in DOMAIN sent : sent[k] = PyBool(TRUE)

====
